---- MODULE Spec2Model ----
(***************************************************************************)
(* A state-machine model of the chatbot-base backend (Django + ninja):     *)
(* file storage with per-user quotas and share links, push subscriptions,  *)
(* scheduled notifications with snooze/cancel and the dispatch job, and    *)
(* the chat-session endpoints.  Every request handler and every Celery     *)
(* task is one action that runs to completion.  Each subsystem has its own *)
(* specification over the same variables; the specifications of            *)
(* interleaved operations split a handler at its database reads and        *)
(* writes.                                                                 *)
(***************************************************************************)
EXTENDS Integers, Sequences, FiniteSets, TLC

VARIABLES
    now,      \* timezone.now(), in ticks (one tick = 24 hours)
    files,    \* UserFile rows: id -> [user, file_size, is_temporary, expires_at, created_at, description]
    quota,    \* StorageQuota rows: user -> [used_storage, file_count, total_quota, max_files]
    shares,   \* FileShare rows: share_token -> record
    subs,     \* PushSubscription rows: endpoint -> [user, p256dh_key, is_active]
    notifs,   \* ScheduledNotification rows: id -> record
    attempts, \* endpoints the most recent send call handed to webpush()
    sessions, \* ChatSession rows: id -> [user, show_in_history, messages]
    turn,     \* what the most recent chat turn did: tools handed to the agent, LLM parameters, events, ...
    call,     \* the most recent call of a pure function: [fn, args, result]
    running,  \* operations in progress and the objects they hold in memory: key -> record
    resp      \* the most recent operation, its HTTP status and its result: [op, status, detail]

vars == <<now, files, quota, shares, subs, notifs, attempts, sessions, turn, call, running, resp>>

----------------------------------------------------------------------------
(* Bounds of the model *)

MaxTime == 1          \* SpecFiles: the clock runs from 0 to MaxTime
MaxShareTime == 2     \* SpecShare: the clock runs from 0 to MaxShareTime
MaxNotifTime == 2     \* SpecNotif: the clock runs from 0 to MaxNotifTime
MaxNotifs == 1        \* number of ScheduledNotification ids that can ever be allocated
MaxSessions == 1      \* number of ChatSession ids
MaxMessages == 4      \* messages a session can hold; a chat call is taken only if its messages fit
MaxShares == 1        \* number of share tokens that can ever be minted
MaxDownloads == 2     \* downloads through one share token
MaxFileIds == 2       \* number of UserFile ids that can ever be allocated
DefaultTotalQuota == 3 \* StorageQuota.total_quota default, in bytes (scaled)
DefaultMaxFiles == 2  \* StorageQuota.max_files default (scaled)

Users == {"alice", "bob"}
Anonymous == "anonymous"          \* a request without a bearer token
FileIds == 1..MaxFileIds
Sizes == {1, 2}                   \* file sizes in bytes
None == 0 - 1                     \* Python None / SQL NULL for integer fields

\* timedelta(hours=24) in ticks
TempMaxAge == 1

EmptyMap == [x \in {} |-> 0]

Put(f, k, v) == [x \in (DOMAIN f) \cup {k} |-> IF x = k THEN v ELSE f[x]]
Drop(f, ks) == [x \in (DOMAIN f) \ ks |-> f[x]]

Min(S) == CHOOSE x \in S : \A y \in S : x <= y
Max0(x) == IF x < 0 THEN 0 ELSE x   \* max(0, x)

NoTurn == [kind |-> "none"]       \* no chat turn has run
NoCall == [fn |-> "none"]         \* no pure function has been called

Response(op, status) == [op |-> op, status |-> status, detail |-> 0]
\* a response that carries a result: the id of the row made, a task's count
Result(op, status, d) == [op |-> op, status |-> status, detail |-> d]

----------------------------------------------------------------------------
(* Files and quotas: files/api.py, files/tasks.py, files/utils.py *)

\* StorageQuota.objects.get_or_create(user=user): the row, created with the
\* model defaults when the user has none.
DefaultQuota ==
    [used_storage |-> 0, file_count |-> 0,
     total_quota |-> DefaultTotalQuota, max_files |-> DefaultMaxFiles]

get_or_create_quota(q, u) == IF u \in DOMAIN q THEN q ELSE Put(q, u, DefaultQuota)

\* uuid4 primary key of a new UserFile: an id no row has
NewFileId == Min(FileIds \ DOMAIN files)

quota_exceeded_Mutant(q, size) == q.used_storage + size >= q.total_quota

\* the two quota checks of upload_file (and of ToolFileHelper.check_quota)
quota_exceeded(q, size) == q.used_storage + size > q.total_quota
file_limit_reached(q) == q.file_count >= q.max_files

\* quota.used_storage += file_size; quota.file_count += 1; quota.save()
charge_quota(q, size) ==
    [q EXCEPT !.used_storage = @ + size, !.file_count = @ + 1]

release_quota_Mutant(q, size) == [q EXCEPT !.used_storage = @ - size]

\* delete_file: quota.used_storage -= file.file_size; quota.file_count -= 1
release_quota(q, size) ==
    [q EXCEPT !.used_storage = @ - size, !.file_count = @ - 1]

\* the sweeps: max(0, used_storage - file_size), max(0, file_count - 1)
release_quota_floored(q, size) ==
    [q EXCEPT !.used_storage = Max0(@ - size), !.file_count = Max0(@ - 1)]

\* on_delete=CASCADE from FileShare.file: deleting files deletes their shares
cascade_shares(sh, ids) == Drop(sh, {t \in DOMAIN sh : sh[t].file \in ids})

NewUserFile(u, size, temp, exp) ==
    [user |-> u, file_size |-> size, is_temporary |-> temp,
     expires_at |-> exp, created_at |-> now, description |-> "d0"]

\* POST /files/upload
upload_file(u, size) ==
    /\ LET q1 == get_or_create_quota(quota, u) IN
       IF quota_exceeded(q1[u], size) \/ file_limit_reached(q1[u])
       THEN /\ quota' = q1
            /\ files' = files
            /\ resp' = Response("upload_file", 400)
       ELSE /\ FileIds \ DOMAIN files # {}
            /\ files' = Put(files, NewFileId, NewUserFile(u, size, FALSE, None))
            /\ quota' = [q1 EXCEPT ![u] = charge_quota(@, size)]
            /\ resp' = Result("upload_file", 200, NewFileId)
    /\ UNCHANGED <<now, shares, subs, notifs, attempts, sessions, turn, call, running>>

\* ToolFileHelper(user).save_file(...): the helper is constructed and used
\* at once, as in the class docstring.  hours = None stands for no
\* expires_in_hours.
expiration(temp, hours) ==
    IF temp /\ hours # None /\ hours # 0 THEN now + hours
    ELSE IF temp THEN now + TempMaxAge
    ELSE None

save_file(u, size, temp, hours) ==
    /\ LET q1 == get_or_create_quota(quota, u) IN
       IF quota_exceeded(q1[u], size) \/ file_limit_reached(q1[u])
       THEN /\ quota' = q1
            /\ files' = files
            /\ resp' = Response("save_file", 500)
       ELSE /\ FileIds \ DOMAIN files # {}
            /\ files' = Put(files, NewFileId,
                            NewUserFile(u, size, temp, expiration(temp, hours)))
            /\ quota' = [q1 EXCEPT ![u] = charge_quota(@, size)]
            /\ resp' = Result("save_file", 200, NewFileId)
    /\ UNCHANGED <<now, shares, subs, notifs, attempts, sessions, turn, call, running>>

\* get_object_or_404(UserFile, id=file_id, user=user)
owns_file(u, id) == id \in DOMAIN files /\ files[id].user = u

\* DELETE /files/{file_id}
delete_file(u, id) ==
    /\ IF ~owns_file(u, id)
       THEN /\ UNCHANGED <<files, quota, shares>>
            /\ resp' = Response("delete_file", 404)
       ELSE IF u \notin DOMAIN quota
       THEN /\ UNCHANGED <<files, quota, shares>>   \* user.storage_quota raises
            /\ resp' = Response("delete_file", 500)
       ELSE /\ quota' = [quota EXCEPT ![u] = release_quota(@, files[id].file_size)]
            /\ files' = Drop(files, {id})
            /\ shares' = cascade_shares(shares, {id})
            /\ resp' = Response("delete_file", 200)
    /\ UNCHANGED <<now, subs, notifs, attempts, sessions, turn, call, running>>

\* PUT /files/{file_id}: the partial metadata update
update_file(u, id, d) ==
    /\ IF ~owns_file(u, id)
       THEN /\ files' = files
            /\ resp' = Response("update_file", 404)
       ELSE /\ files' = [files EXCEPT ![id].description = d]
            /\ resp' = Response("update_file", 200)
    /\ UNCHANGED <<now, quota, shares, subs, notifs, attempts, sessions, turn, call, running>>

\* GET /files/{file_id} and GET /files/{file_id}/download
get_file(u, id) ==
    /\ resp' = Response("get_file", IF owns_file(u, id) THEN 200 ELSE 404)
    /\ UNCHANGED <<now, files, quota, shares, subs, notifs, attempts, sessions, turn, call, running>>

\* the loop of both sweeps: file.delete(), then the floored quota update of
\* the file's owner, one file after the other
RECURSIVE sweep_quota(_, _, _)
sweep_quota(q, fs, ids) ==
    IF ids = {} THEN q
    ELSE LET id == Min(ids)
             u == fs[id].user
             q1 == IF u \in DOMAIN q
                   THEN [q EXCEPT ![u] = release_quota_floored(@, fs[id].file_size)]
                   ELSE q
         IN sweep_quota(q1, fs, ids \ {id})

expired_files ==
    {id \in DOMAIN files :
        /\ files[id].is_temporary
        /\ files[id].expires_at # None
        /\ files[id].expires_at <= now}

old_temp_files ==
    {id \in DOMAIN files :
        /\ files[id].is_temporary
        /\ files[id].expires_at = None
        /\ files[id].created_at <= now - TempMaxAge}

sweep(op, ids) ==
    /\ files' = Drop(files, ids)
    /\ shares' = cascade_shares(shares, ids)
    /\ quota' = sweep_quota(quota, files, ids)
    /\ resp' = Result(op, 200, Cardinality(ids))   \* {"deleted": deleted_count}
    /\ UNCHANGED <<now, subs, notifs, attempts, sessions, turn, call, running>>

\* Celery task cleanup_expired_files
cleanup_expired_files == sweep("cleanup_expired_files", expired_files)

\* Celery task cleanup_old_temporary_files
cleanup_old_temporary_files == sweep("cleanup_old_temporary_files", old_temp_files)

\* UserFileAdmin, fieldset Status: an administrator marks a file temporary
\* (or not) and clears expires_at; file_size is read-only in the admin
admin_set_temporary(id, temp) ==
    /\ id \in DOMAIN files
    /\ files' = [files EXCEPT ![id].is_temporary = temp, ![id].expires_at = None]
    /\ resp' = Response("admin_set_temporary", 200)
    /\ UNCHANGED <<now, quota, shares, subs, notifs, attempts, sessions, turn, call, running>>

\* the clock advances, up to the horizon of the specification
Tick(horizon) ==
    /\ now < horizon
    /\ now' = now + 1
    /\ resp' = Response("tick", 200)
    /\ UNCHANGED <<files, quota, shares, subs, notifs, attempts, sessions, turn, call, running>>

InitCommon ==
    /\ now = 0
    /\ turn = NoTurn
    /\ call = NoCall
    /\ running = EmptyMap
    /\ resp = Response("init", 200)

InitFiles ==
    /\ InitCommon
    /\ files = EmptyMap
    /\ quota = EmptyMap
    /\ shares = EmptyMap
    /\ subs = EmptyMap
    /\ notifs = EmptyMap
    /\ attempts = {}
    /\ sessions = EmptyMap

NextFiles ==
    \/ \E u \in Users, s \in Sizes : upload_file(u, s)
    \/ \E u \in Users, s \in Sizes, t \in BOOLEAN, h \in {None, 1} : save_file(u, s, t, h)
    \/ \E u \in Users, id \in FileIds : delete_file(u, id)
    \/ cleanup_expired_files
    \/ cleanup_old_temporary_files
    \/ \E id \in FileIds, t \in BOOLEAN : admin_set_temporary(id, t)
    \/ Tick(MaxTime)

SpecFiles == InitFiles /\ [][NextFiles]_vars

----------------------------------------------------------------------------
(* Properties of the files and quotas *)

RECURSIVE SumSizes(_, _)
SumSizes(fs, ids) ==
    IF ids = {} THEN 0
    ELSE LET id == Min(ids) IN fs[id].file_size + SumSizes(fs, ids \ {id})

FilesOf(u) == {id \in DOMAIN files : files[id].user = u}

\* C1: after any sequence of uploads, helper saves, owner deletions and
\* sweeps, each run to completion, every user's used_storage is the sum of
\* the sizes of the user's files, file_count is their number, and neither
\* is negative; a user without a quota row has no files.
C1_QuotaMatchesFiles ==
    \A u \in Users :
        IF u \in DOMAIN quota
        THEN /\ quota[u].used_storage = SumSizes(files, FilesOf(u))
             /\ quota[u].file_count = Cardinality(FilesOf(u))
             /\ quota[u].used_storage >= 0
             /\ quota[u].file_count >= 0
        ELSE FilesOf(u) = {}

\* a sweep has just deleted files and their owner still holds another file
C1_Witness ==
    /\ resp.op \in {"cleanup_expired_files", "cleanup_old_temporary_files"}
    /\ resp.detail >= 1
    /\ \E u \in DOMAIN quota : quota[u].used_storage > 0

\* C2: an upload of s bytes is answered 400 exactly when
\* used_storage + s > total_quota or file_count >= max_files (the quota row
\* of a user who has none counts as 0 used, 0 files); a rejected upload
\* creates no file and leaves used_storage and file_count as they were; any
\* other upload is answered 200, stores one file of s bytes and charges it.
C2_UploadStep(u, s) ==
    LET used == IF u \in DOMAIN quota THEN quota[u].used_storage ELSE 0
        count == IF u \in DOMAIN quota THEN quota[u].file_count ELSE 0
        rejected == used + s > DefaultTotalQuota \/ count >= DefaultMaxFiles
    IN /\ (resp'.status = 400) <=> rejected
       /\ rejected =>
            /\ files' = files
            /\ quota'[u].used_storage = used
            /\ quota'[u].file_count = count
       /\ ~rejected =>
            /\ resp'.status = 200
            /\ Cardinality(DOMAIN files') = Cardinality(DOMAIN files) + 1
            /\ quota'[u].used_storage = used + s
            /\ quota'[u].file_count = count + 1

C2_UploadRejectedIffOverQuota ==
    [][\A u \in Users, s \in Sizes : upload_file(u, s) => C2_UploadStep(u, s)]_vars

\* an upload was accepted that brought its owner to exactly total_quota
C2_Witness ==
    /\ resp.op = "upload_file"
    /\ resp.status = 200
    /\ resp.detail \in DOMAIN files
    /\ quota[files[resp.detail].user].used_storage
         = quota[files[resp.detail].user].total_quota

----------------------------------------------------------------------------
(* A ToolFileHelper that lives across other requests: the helper reads the *)
(* StorageQuota row once, in __init__, and keeps the instance in           *)
(* self.quota; running[u] is the helper a tool holds for user u.           *)

\* helper = ToolFileHelper(user, ...)
ToolFileHelper_init(u) ==
    /\ quota' = get_or_create_quota(quota, u)
    /\ running' = Put(running, u, [quota |-> quota'[u]])
    /\ resp' = Response("ToolFileHelper", 200)
    /\ UNCHANGED <<now, files, shares, subs, notifs, attempts, sessions, turn, call>>

\* helper.save_file(...) and helper.save_from_bytes(...), which writes the
\* bytes to a temporary path and calls save_file: check_quota reads
\* self.quota, and self.quota.save() writes every field of that instance
helper_save_file(u, size, temp, hours) ==
    /\ u \in DOMAIN running
    /\ LET q == running[u].quota IN
       IF quota_exceeded(q, size) \/ file_limit_reached(q)
       THEN /\ UNCHANGED <<files, quota, running>>
            /\ resp' = Response("save_file", 500)
       ELSE /\ FileIds \ DOMAIN files # {}
            /\ files' = Put(files, NewFileId,
                            NewUserFile(u, size, temp, expiration(temp, hours)))
            /\ quota' = [quota EXCEPT ![u] = charge_quota(q, size)]
            /\ running' = [running EXCEPT ![u].quota = charge_quota(q, size)]
            /\ resp' = Result("save_file", 200, NewFileId)
    /\ UNCHANGED <<now, shares, subs, notifs, attempts, sessions, turn, call>>

\* the counters of a quota row that has drifted from the files can fall
\* without limit; the model follows them down to -MaxDrift
MaxDrift == 2
WithinDrift ==
    \A u \in DOMAIN quota :
        quota[u].used_storage >= 0 - MaxDrift /\ quota[u].file_count >= 0 - MaxDrift

NextHelper ==
    \/ WithinDrift /\ ToolFileHelper_init("alice")
    \/ \E s \in Sizes, t \in BOOLEAN : WithinDrift /\ helper_save_file("alice", s, t, None)
    \/ \E u \in Users, s \in Sizes : upload_file(u, s)
    \/ \E u \in Users, id \in FileIds : delete_file(u, id)

SpecHelper == InitFiles /\ [][NextHelper]_vars

\* C21: every ToolFileHelper save is checked against, and charged to, the
\* user's quota as it stands at the time of the save: after any sequence of
\* helper constructions, helper saves, uploads and deletions, each run to
\* completion and including uploads or deletions made between a helper's
\* construction and its save, used_storage is the sum of the user's file
\* sizes and file_count is the number of the user's files.
C21_HelperChargesCurrentQuota ==
    \A u \in DOMAIN quota :
        /\ quota[u].used_storage = SumSizes(files, FilesOf(u))
        /\ quota[u].file_count = Cardinality(FilesOf(u))

----------------------------------------------------------------------------
(* Interleaved requests on one StorageQuota row.  No handler runs in a     *)
(* transaction or locks the row: each one reads the row into a model       *)
(* instance, and later saves that instance.  running[p] is the request     *)
(* that server process p has read the row for and not yet written.         *)

Processes == {"p1", "p2"}

\* upload_file up to its two checks: get_or_create, then the checks on the
\* instance just read
upload_file_read(p, u, size) ==
    /\ p \notin DOMAIN running
    /\ LET q1 == get_or_create_quota(quota, u) IN
       /\ quota' = q1
       /\ IF quota_exceeded(q1[u], size) \/ file_limit_reached(q1[u])
          THEN /\ running' = running
               /\ resp' = Response("upload_file", 400)
          ELSE /\ running' = Put(running, p, [op |-> "upload_file", user |-> u,
                                              size |-> size, quota |-> q1[u]])
               /\ resp' = Response("upload_file_read", 200)
    /\ UNCHANGED <<now, files, shares, subs, notifs, attempts, sessions, turn, call>>

upload_file_write_Mutant(p) ==
    /\ p \in DOMAIN running
    /\ running[p].op = "upload_file"
    /\ FileIds \ DOMAIN files # {}
    /\ LET u == running[p].user
           size == running[p].size
       IN /\ files' = Put(files, NewFileId, NewUserFile(u, size, FALSE, None))
          /\ quota' = [quota EXCEPT ![u] = charge_quota(@, size)]
          /\ resp' = Result("upload_file", 200, NewFileId)
    /\ running' = Drop(running, {p})
    /\ UNCHANGED <<now, shares, subs, notifs, attempts, sessions, turn, call>>

\* the rest of upload_file: UserFile.objects.create, then the increments on
\* the instance read before the checks, and quota.save()
upload_file_write(p) ==
    /\ p \in DOMAIN running
    /\ running[p].op = "upload_file"
    /\ FileIds \ DOMAIN files # {}
    /\ LET u == running[p].user
           size == running[p].size
       IN /\ files' = Put(files, NewFileId, NewUserFile(u, size, FALSE, None))
          /\ quota' = [quota EXCEPT ![u] = charge_quota(running[p].quota, size)]
          /\ resp' = Result("upload_file", 200, NewFileId)
    /\ running' = Drop(running, {p})
    /\ UNCHANGED <<now, shares, subs, notifs, attempts, sessions, turn, call>>

\* delete_file up to `quota = user.storage_quota`
delete_file_read(p, u, id) ==
    /\ p \notin DOMAIN running
    /\ IF ~owns_file(u, id)
       THEN /\ running' = running
            /\ resp' = Response("delete_file", 404)
       ELSE IF u \notin DOMAIN quota
       THEN /\ running' = running
            /\ resp' = Response("delete_file", 500)
       ELSE /\ running' = Put(running, p, [op |-> "delete_file", user |-> u, id |-> id,
                                           size |-> files[id].file_size,
                                           quota |-> quota[u]])
            /\ resp' = Response("delete_file_read", 200)
    /\ UNCHANGED <<now, files, quota, shares, subs, notifs, attempts, sessions, turn, call>>

\* the rest of delete_file: the decrements on the instance read,
\* quota.save(), file.delete()
delete_file_write(p) ==
    /\ p \in DOMAIN running
    /\ running[p].op = "delete_file"
    /\ LET u == running[p].user IN
       quota' = [quota EXCEPT ![u] = release_quota(running[p].quota, running[p].size)]
    /\ files' = Drop(files, {running[p].id})
    /\ shares' = cascade_shares(shares, {running[p].id})
    /\ resp' = Response("delete_file", 200)
    /\ running' = Drop(running, {p})
    /\ UNCHANGED <<now, subs, notifs, attempts, sessions, turn, call>>

NextRace ==
    \/ \E p \in Processes : WithinDrift /\ upload_file_read(p, "alice", 2)
    \/ \E p \in Processes : upload_file_write(p)
    \/ \E p \in Processes, id \in FileIds : WithinDrift /\ delete_file_read(p, "alice", id)
    \/ \E p \in Processes : delete_file_write(p)
    \/ WithinDrift /\ save_file("alice", 1, FALSE, None)

SpecRace == InitFiles /\ [][NextRace]_vars

\* process p has just written the row for the request it held
C24_Write(p) ==
    /\ p \in DOMAIN running
    /\ p \notin DOMAIN running'
    /\ \A r \in DOMAIN running \ {p} : running'[r] = running[r]

\* C24: two quota-mutating operations for one user can interleave between
\* one's read of the StorageQuota row and its write, and the write then
\* saves the counters computed from the row as it was read: whatever other
\* operations have written since is lost.  An upload in flight has passed
\* its checks on the row it read.
C24_WritesUseTheRowRead ==
    [][\A p \in Processes : C24_Write(p) =>
          LET r == running[p] IN
          /\ r.op = "upload_file" =>
                /\ r.quota.used_storage + r.size <= r.quota.total_quota
                /\ quota'[r.user].used_storage = r.quota.used_storage + r.size
                /\ quota'[r.user].file_count = r.quota.file_count + 1
          /\ r.op = "delete_file" =>
                /\ quota'[r.user].used_storage = r.quota.used_storage - r.size
                /\ quota'[r.user].file_count = r.quota.file_count - 1
      ]_vars

\* two uploads that each passed the check have both been stored: the files
\* hold more bytes than total_quota, and used_storage is not their sum
C24_Witness ==
    /\ resp.op = "upload_file"
    /\ resp.status = 200
    /\ running = EmptyMap
    /\ "alice" \in DOMAIN quota
    /\ Cardinality(FilesOf("alice")) = 2
    /\ SumSizes(files, FilesOf("alice")) > quota["alice"].total_quota
    /\ quota["alice"].used_storage # SumSizes(files, FilesOf("alice"))
    /\ quota["alice"].used_storage <= quota["alice"].total_quota

----------------------------------------------------------------------------
(* Share links: files/api.py create_file_share, download_shared_file and   *)
(* files/tasks.py cleanup_expired_shares                                   *)

ShareTokens == 1..MaxShares
NoUser == "nobody"                \* shared_with is NULL

\* secrets.token_urlsafe(32): a token no share has
NewShareToken == Min(ShareTokens \ DOMAIN shares)

\* POST /files/share.  hours = None stands for no expires_in_hours,
\* maxd = None for no max_downloads, with = NoUser for no shared_with_user_id.
create_file_share(u, id, public, with, maxd, hours) ==
    /\ IF ~owns_file(u, id)
       THEN /\ shares' = shares
            /\ resp' = Response("create_file_share", 404)
       ELSE /\ ShareTokens \ DOMAIN shares # {}
            /\ shares' = Put(shares, NewShareToken,
                    [file |-> id, is_public |-> public, shared_with |-> with,
                     max_downloads |-> maxd, download_count |-> 0,
                     expires_at |-> IF hours # None /\ hours # 0
                                    THEN now + hours ELSE None,
                     last_accessed |-> None])
            /\ resp' = Result("create_file_share", 200, NewShareToken)
    /\ UNCHANGED <<now, files, quota, subs, notifs, attempts, sessions, turn, call, running>>

\* FileShare.is_expired: expires_at is set and in the past
is_expired(sh) == sh.expires_at # None /\ now > sh.expires_at

\* router = Router(tags=['Files'], auth=JWTAuth()): every route of the
\* router, /shared/{share_token} included, answers 401 to a request without
\* a valid bearer token before its handler runs
router_auth(caller) == caller # Anonymous

share_permission_Mutant(caller, sh) ==
    IF sh.is_public THEN 200
    ELSE IF caller = Anonymous THEN 401
    ELSE 200

\* the permission check of download_shared_file; 200 when access is granted
share_permission(caller, sh) ==
    IF sh.is_public THEN 200
    ELSE IF caller = Anonymous THEN 401
    ELSE IF sh.shared_with # NoUser /\ caller # sh.shared_with THEN 403
    ELSE 200

\* GET /files/shared/{share_token}.  blob tells whether the stored file is
\* still on disk.
download_shared_file(caller, t, blob) ==
    /\ IF ~router_auth(caller)
       THEN /\ shares' = shares
            /\ resp' = Response("download_shared_file", 401)
       ELSE IF t \notin DOMAIN shares
       THEN /\ shares' = shares
            /\ resp' = Response("download_shared_file", 404)
       ELSE IF is_expired(shares[t])
       THEN /\ shares' = shares
            /\ resp' = Response("download_shared_file", 410)
       ELSE IF share_permission(caller, shares[t]) # 200
       THEN /\ shares' = shares
            /\ resp' = Response("download_shared_file", share_permission(caller, shares[t]))
       ELSE /\ shares[t].download_count < MaxDownloads
            /\ shares' = [shares EXCEPT ![t].download_count = @ + 1,
                                        ![t].last_accessed = now]
            /\ resp' = Result("download_shared_file", IF blob THEN 200 ELSE 404, t)
    /\ UNCHANGED <<now, files, quota, subs, notifs, attempts, sessions, turn, call, running>>

\* Celery task cleanup_expired_shares
cleanup_expired_shares ==
    LET expired == {t \in DOMAIN shares :
                        shares[t].expires_at # None /\ shares[t].expires_at <= now}
        left == Drop(shares, expired)
        maxed == {t \in DOMAIN left :
                        /\ left[t].max_downloads # None
                        /\ left[t].download_count >= left[t].max_downloads}
    IN /\ shares' = Drop(left, maxed)
       /\ resp' = Result("cleanup_expired_shares", 200,
                         Cardinality(expired) + Cardinality(maxed))
       /\ UNCHANGED <<now, files, quota, subs, notifs, attempts, sessions, turn, call, running>>

\* one file of alice, uploaded before the run starts
InitShare ==
    /\ InitCommon
    /\ files = Put(EmptyMap, 1, NewUserFile("alice", 1, FALSE, None))
    /\ quota = Put(EmptyMap, "alice", charge_quota(DefaultQuota, 1))
    /\ shares = EmptyMap
    /\ subs = EmptyMap
    /\ notifs = EmptyMap
    /\ attempts = {}
    /\ sessions = EmptyMap

NextShare ==
    \/ \E u \in Users, id \in {1}, public \in BOOLEAN, with \in {NoUser, "bob"},
          maxd \in {None, 1}, hours \in {None, 1} :
            create_file_share(u, id, public, with, maxd, hours)
    \/ \E c \in Users \cup {Anonymous}, t \in ShareTokens, blob \in BOOLEAN :
            download_shared_file(c, t, blob)
    \/ cleanup_expired_shares
    \/ Tick(MaxShareTime)

SpecShare == InitShare /\ [][NextShare]_vars

\* C9: access through a share token whose expires_at is in the past is
\* answered 410, whether the share is public or not and whoever the caller
\* is, and leaves download_count and last_accessed unchanged.
C9_ExpiredShareIsGone ==
    [][\A c \in Users \cup {Anonymous}, t \in DOMAIN shares, blob \in BOOLEAN :
        (download_shared_file(c, t, blob)
            /\ shares[t].expires_at # None /\ shares[t].expires_at < now)
        => (resp'.status = 410 /\ shares' = shares)]_vars

\* C10: for a share with max_downloads set, download_count never exceeds
\* max_downloads.
C10_DownloadCountWithinCap ==
    \A t \in DOMAIN shares :
        shares[t].max_downloads # None
            => shares[t].download_count <= shares[t].max_downloads

C12_PublicShareWithoutToken ==
    [][\A t \in DOMAIN shares, blob \in BOOLEAN :
        (/\ download_shared_file(Anonymous, t, blob)
         /\ shares[t].is_public
         /\ ~(shares[t].expires_at # None /\ shares[t].expires_at < now))
        => /\ resp'.status # 401
           /\ shares'[t].download_count = shares[t].download_count + 1]_vars

----------------------------------------------------------------------------
(* Push subscriptions and delivery: notifications/api.py *)

Endpoints == {"e1", "e2"}
Keys == {"k1", "k2"}
NoKey == ""                       \* payload.keys lacks p256dh or auth

\* What one webpush() call does: it returns (the gateway answered 2xx), it
\* raises WebPushException carrying the gateway's response or no response,
\* or it raises another exception.
Sent == [kind |-> "sent", status |-> 201]
Gone404 == [kind |-> "WebPushException", status |-> 404]
Gone410 == [kind |-> "WebPushException", status |-> 410]
Busy500 == [kind |-> "WebPushException", status |-> 500]
NoResponse == [kind |-> "WebPushException", status |-> None]
OtherError == [kind |-> "Exception", status |-> None]
Outcomes == {Sent, Gone404, Gone410, Busy500, NoResponse, OtherError}

\* bool(e.response): e.response is None or a requests.Response, whose
\* __bool__ is Response.ok, false for every status from 400
response_truthy(o) == o.status # None /\ o.status < 400

\* `if e.response and e.response.status_code in [404, 410]`
marks_inactive(o) == response_truthy(o) /\ o.status \in {404, 410}

\* PushSubscription.objects.filter(user=user, is_active=True)
active_subscriptions(sb, u) ==
    {e \in DOMAIN sb : sb[e].user = u /\ sb[e].is_active}

\* the orders in which a queryset without ordering may yield the rows
Orders(S) ==
    {q \in [1..Cardinality(S) -> S] : \A i, j \in 1..Cardinality(S) : q[i] = q[j] => i = j}

\* The for loop of send_push_notification_to_user over the rows `order`,
\* from position i, with the outcome o[e] of webpush() for each row:
\* [success, subs, attempts, raised].
RECURSIVE send_loop(_, _, _, _, _, _)
send_loop(sb, order, i, o, success, tried) ==
    IF i > Len(order)
    THEN [success |-> success, subs |-> sb, attempts |-> tried, raised |-> FALSE]
    ELSE LET e == order[i] IN
         IF o[e].kind = "sent"
         THEN send_loop(sb, order, i + 1, o, TRUE, tried \cup {e})
         ELSE IF o[e].kind = "WebPushException"
         THEN send_loop(IF marks_inactive(o[e])
                        THEN [sb EXCEPT ![e].is_active = FALSE] ELSE sb,
                        order, i + 1, o, success, tried \cup {e})
         ELSE [success |-> FALSE, subs |-> sb, attempts |-> tried \cup {e},
               raised |-> TRUE]

\* send_push_notification_to_user(user, ...): what it returns and the rows
\* it leaves.  An exception other than WebPushException leaves the loop
\* and the function returns False.
send_push_notification_to_user(sb, u, order, o) ==
    send_loop(sb, order, 1, o, FALSE, {})

deactivate_others_Mutant(sb, u, e) == sb

\* old_subscriptions = filter(user=request.user, is_active=True)
\*     .exclude(endpoint=payload.endpoint); old_subscriptions.update(is_active=False)
deactivate_others(sb, u, e) ==
    [x \in DOMAIN sb |->
        IF x \in active_subscriptions(sb, u) \ {e}
        THEN [sb[x] EXCEPT !.is_active = FALSE] ELSE sb[x]]

\* POST /notifications/subscribe
subscribe_to_push(u, e, key) ==
    /\ IF key = NoKey
       THEN /\ subs' = subs
            /\ resp' = Response("subscribe_to_push", 400)
       ELSE /\ subs' = Put(deactivate_others(subs, u, e), e,
                           [user |-> u, p256dh_key |-> key, is_active |-> TRUE])
            /\ resp' = Response("subscribe_to_push", 201)
    /\ attempts' = {}
    /\ UNCHANGED <<now, files, quota, shares, notifs, sessions, turn, call, running>>

\* DELETE /notifications/unsubscribe
unsubscribe_from_push(u, e) ==
    /\ IF e \in DOMAIN subs /\ subs[e].user = u
       THEN /\ subs' = [subs EXCEPT ![e].is_active = FALSE]
            /\ resp' = Response("unsubscribe_from_push", 200)
       ELSE /\ subs' = subs
            /\ resp' = Response("unsubscribe_from_push", 404)
    /\ attempts' = {}
    /\ UNCHANGED <<now, files, quota, shares, notifs, sessions, turn, call, running>>

\* a call of send_push_notification_to_user outside the dispatch job (the
\* send_test_notification management command)
send_push(u, o) ==
    /\ \E order \in Orders(active_subscriptions(subs, u)) :
         LET r == send_push_notification_to_user(subs, u, order, o) IN
            /\ subs' = r.subs
            /\ attempts' = r.attempts
            /\ resp' = Response("send_push", IF r.success THEN 200 ELSE 500)
    /\ UNCHANGED <<now, files, quota, shares, notifs, sessions, turn, call, running>>

\* POST /notifications/test: the same loop, but an exception other than
\* WebPushException is answered 500 and no active subscription 400
send_test_notification(u, o) ==
    /\ IF active_subscriptions(subs, u) = {}
       THEN /\ subs' = subs
            /\ attempts' = {}
            /\ resp' = Response("send_test_notification", 400)
       ELSE \E order \in Orders(active_subscriptions(subs, u)) :
            LET r == send_push_notification_to_user(subs, u, order, o) IN
               /\ subs' = r.subs
               /\ attempts' = r.attempts
               /\ resp' = Response("send_test_notification",
                                   IF r.raised THEN 500 ELSE 200)
    /\ UNCHANGED <<now, files, quota, shares, notifs, sessions, turn, call, running>>

InitPush ==
    /\ InitCommon
    /\ files = EmptyMap
    /\ quota = EmptyMap
    /\ shares = EmptyMap
    /\ subs = EmptyMap
    /\ notifs = EmptyMap
    /\ attempts = {}
    /\ sessions = EmptyMap

NextPush ==
    \/ \E u \in Users, e \in Endpoints, k \in Keys \cup {NoKey} : subscribe_to_push(u, e, k)
    \/ \E u \in Users, e \in Endpoints : unsubscribe_from_push(u, e)
    \/ \E u \in Users, o \in [Endpoints -> Outcomes] : send_push(u, o)
    \/ \E u \in Users, o \in [Endpoints -> Outcomes] : send_test_notification(u, o)

SpecPush == InitPush /\ [][NextPush]_vars

\* C7: after any sequence of subscribe and unsubscribe calls (and sends),
\* every user has at most one PushSubscription with is_active = true.
C7_AtMostOneActiveSubscription ==
    \A u \in Users : Cardinality(active_subscriptions(subs, u)) <= 1

\* a user who registered a second endpoint: the first row is kept, inactive
C7_Witness ==
    \E u \in Users, e1, e2 \in DOMAIN subs :
        /\ e1 # e2
        /\ subs[e1].user = u /\ subs[e2].user = u
        /\ subs[e1].is_active /\ ~subs[e2].is_active
        /\ resp.op = "subscribe_to_push"

\* C8: when a delivery attempt to a subscription fails with a push-gateway
\* status of 404 or 410, the subscription has is_active = false when the
\* send call returns; a failure with any other status leaves is_active as
\* it was.
C8_GoneSubscriptionDeactivated ==
    [][\A u \in Users, o \in [Endpoints -> Outcomes] :
        send_push(u, o) =>
            \A e \in attempts' :
                IF o[e] \in {Gone404, Gone410}
                THEN ~subs'[e].is_active
                ELSE subs'[e].is_active = subs[e].is_active]_vars

\* C26: a subscribe or unsubscribe call by one user never changes a
\* PushSubscription that belongs to another user: its owner, keys and
\* is_active flag are the same before and after, also when the caller
\* submits an endpoint that the other user has registered.
C26_OthersSubscriptionsUntouched ==
    [][resp'.op \in {"subscribe_to_push", "unsubscribe_from_push"} =>
        \A u \in Users, e \in Endpoints, k \in Keys \cup {NoKey} :
            (subscribe_to_push(u, e, k) \/ unsubscribe_from_push(u, e)) =>
                \A x \in DOMAIN subs :
                    subs[x].user # u => (x \in DOMAIN subs' /\ subs'[x] = subs[x])]_vars

----------------------------------------------------------------------------
(* Delivery to a user with several active subscriptions.  The subscribe    *)
(* endpoint leaves one active row per user; the admin site edits is_active *)
(* of any row.                                                             *)

\* PushSubscriptionAdmin: is_active is an editable field of the change form
admin_set_active(e, active) ==
    /\ e \in DOMAIN subs
    /\ subs' = [subs EXCEPT ![e].is_active = active]
    /\ resp' = Response("admin_set_active", 200)
    /\ UNCHANGED <<now, files, quota, shares, notifs, attempts, sessions, turn, call, running>>

NextDevices ==
    \/ \E u \in Users, e \in Endpoints, k \in Keys : subscribe_to_push(u, e, k)
    \/ \E e \in Endpoints, active \in BOOLEAN : admin_set_active(e, active)
    \/ \E u \in Users, o \in [Endpoints -> Outcomes] : send_push(u, o)
    \/ \E u \in Users, o \in [Endpoints -> Outcomes] : send_test_notification(u, o)

SpecDevices == InitPush /\ [][NextDevices]_vars

\* C17: one send_push_notification_to_user call attempts delivery to every
\* subscription of the user that was active when the call started, whatever
\* the attempts before it met (success, 404/410, another push failure, or
\* any other exception).
C17_EverySubscriptionAttempted ==
    [][\A u \in Users, o \in [Endpoints -> Outcomes] :
        send_push(u, o) => attempts' = active_subscriptions(subs, u)]_vars

----------------------------------------------------------------------------
(* Scheduled notifications: notifications/models.py, notifications/api.py  *)
(* and the dispatch job of notifications/tasks.py.  In this part one tick  *)
(* of the clock is one snooze_duration_minutes default (30 minutes).       *)

NotifIds == 1..MaxNotifs
\* snooze_duration_minutes = models.IntegerField(default=30), in ticks
DefaultSnoozeDuration == 1
Terminal == {"sent", "cancelled", "failed"}

\* uuid4 primary key of a new ScheduledNotification
NewNotifId == Min(NotifIds \ DOMAIN notifs)

\* POST /notifications/scheduled
create_scheduled_notification(u, sched, maxs) ==
    /\ NotifIds \ DOMAIN notifs # {}
    /\ notifs' = Put(notifs, NewNotifId,
            [user |-> u, status |-> "pending", title |-> "t0",
             scheduled_time |-> sched,
             snooze_duration_minutes |-> DefaultSnoozeDuration,
             snooze_count |-> 0, max_snooze_count |-> maxs,
             original_scheduled_time |-> None, sent_at |-> None])
    /\ resp' = Result("create_scheduled_notification", 201, NewNotifId)
    /\ UNCHANGED <<now, files, quota, shares, subs, attempts, sessions, turn, call, running>>

\* ScheduledNotification.objects.get(id=notification_id, user=request.user)
owns_notification(u, id) == id \in DOMAIN notifs /\ notifs[id].user = u

\* GET /notifications/scheduled/{notification_id}
get_scheduled_notification(u, id) ==
    /\ resp' = Response("get_scheduled_notification",
                        IF owns_notification(u, id) THEN 200 ELSE 404)
    /\ UNCHANGED <<now, files, quota, shares, subs, notifs, attempts, sessions, turn, call, running>>

apply_update_Mutant(n, payload) ==
    [f \in DOMAIN n |-> IF f \in DOMAIN payload THEN payload[f]
                        ELSE IF f = "snooze_count" THEN 0 ELSE n[f]]

\* payload.dict(exclude_unset=True); setattr(notification, field, value):
\* the payload is a function from the fields the request sets to their values
apply_update(n, payload) ==
    [f \in DOMAIN n |-> IF f \in DOMAIN payload THEN payload[f] ELSE n[f]]

\* PATCH /notifications/scheduled/{notification_id}
update_scheduled_notification(u, id, payload) ==
    /\ IF ~owns_notification(u, id)
       THEN /\ notifs' = notifs
            /\ resp' = Response("update_scheduled_notification", 404)
       ELSE IF notifs[id].status \notin {"pending", "snoozed"}
       THEN /\ notifs' = notifs
            /\ resp' = Response("update_scheduled_notification", 400)
       ELSE /\ notifs' = [notifs EXCEPT ![id] = apply_update(@, payload)]
            /\ resp' = Response("update_scheduled_notification", 200)
    /\ UNCHANGED <<now, files, quota, shares, subs, attempts, sessions, turn, call, running>>

snooze_allowed_Mutant(n) == n.snooze_count <= n.max_snooze_count

\* ScheduledNotification.snooze: `if self.snooze_count >= self.max_snooze_count: return False`
snooze_allowed(n) == ~(n.snooze_count >= n.max_snooze_count)

snooze_Mutant(n, d) ==
    [n EXCEPT
        !.original_scheduled_time = IF @ = None THEN n.scheduled_time ELSE @,
        !.scheduled_time = now + (IF d # None /\ d # 0 THEN d
                                  ELSE n.snooze_duration_minutes),
        !.status = "snoozed"]

\* ScheduledNotification.snooze, past its guard.  d = None stands for no
\* duration_minutes; `duration_minutes or self.snooze_duration_minutes`
\* takes the default for 0 as well.
snooze(n, d) ==
    [n EXCEPT
        !.original_scheduled_time = IF @ = None THEN n.scheduled_time ELSE @,
        !.scheduled_time = now + (IF d # None /\ d # 0 THEN d
                                  ELSE n.snooze_duration_minutes),
        !.snooze_count = @ + 1,
        !.status = "snoozed"]

\* POST /notifications/scheduled/{notification_id}/snooze
snooze_notification(u, id, d) ==
    /\ IF ~owns_notification(u, id)
       THEN /\ notifs' = notifs
            /\ resp' = Response("snooze_notification", 404)
       ELSE IF ~snooze_allowed(notifs[id])
       THEN /\ notifs' = notifs
            /\ resp' = Response("snooze_notification", 400)
       ELSE /\ notifs' = [notifs EXCEPT ![id] = snooze(@, d)]
            /\ resp' = Result("snooze_notification", 200, id)
    /\ UNCHANGED <<now, files, quota, shares, subs, attempts, sessions, turn, call, running>>

\* ScheduledNotification.cancel
cancel(n) == [n EXCEPT !.status = "cancelled"]

\* DELETE /notifications/scheduled/{notification_id}
cancel_scheduled_notification(u, id) ==
    /\ IF ~owns_notification(u, id)
       THEN /\ notifs' = notifs
            /\ resp' = Response("cancel_scheduled_notification", 404)
       ELSE /\ notifs' = [notifs EXCEPT ![id] = cancel(@)]
            /\ resp' = Result("cancel_scheduled_notification", 200, id)
    /\ UNCHANGED <<now, files, quota, shares, subs, attempts, sessions, turn, call, running>>

\* ScheduledNotification.mark_sent
mark_sent(n) == [n EXCEPT !.status = "sent", !.sent_at = now]

\* notification.status = 'failed'; notification.save()
mark_failed(n) == [n EXCEPT !.status = "failed"]

due_notifications_Mutant(ns) ==
    {id \in DOMAIN ns : ns[id].status = "pending" /\ ns[id].scheduled_time <= now}

\* filter(status__in=['pending', 'snoozed'], scheduled_time__lte=now)
due_notifications(ns) ==
    {id \in DOMAIN ns :
        ns[id].status \in {"pending", "snoozed"} /\ ns[id].scheduled_time <= now}

\* an exception raised inside the try block of the dispatch loop
TryRaises == [kind |-> "raise", status |-> None]

\* The dispatch loop over the due notifications `ids`.  o[id] is what every
\* webpush() call made for notification id does, or TryRaises.
\* [notifs, subs, sent]
RECURSIVE dispatch_loop(_, _, _, _, _)
dispatch_loop(ns, sb, ids, o, sent) ==
    IF ids = {} THEN [notifs |-> ns, subs |-> sb, sent |-> sent]
    ELSE LET id == CHOOSE x \in ids : \A y \in ids :
                        \/ ns[x].scheduled_time < ns[y].scheduled_time
                        \/ ns[x].scheduled_time = ns[y].scheduled_time /\ x <= y
             act == active_subscriptions(sb, ns[id].user)
             order == CHOOSE q \in Orders(act) : TRUE
             r == send_push_notification_to_user(
                      sb, ns[id].user, order, [e \in Endpoints |-> o[id]])
         IN IF o[id] = TryRaises
            THEN dispatch_loop([ns EXCEPT ![id] = mark_failed(@)], sb,
                               ids \ {id}, o, sent)
            ELSE IF r.success
            THEN dispatch_loop([ns EXCEPT ![id] = mark_sent(@)], r.subs,
                               ids \ {id}, o, sent + 1)
            ELSE dispatch_loop([ns EXCEPT ![id] = mark_failed(@)], r.subs,
                               ids \ {id}, o, sent)

\* Celery task process_scheduled_notifications
process_scheduled_notifications(o) ==
    LET r == dispatch_loop(notifs, subs, due_notifications(notifs), o, 0) IN
        /\ notifs' = r.notifs
        /\ subs' = r.subs
        /\ resp' = Result("process_scheduled_notifications", 200, r.sent)
        /\ UNCHANGED <<now, files, quota, shares, attempts, sessions, turn, call, running>>

\* alice has one registered device, bob has none
InitNotif ==
    /\ InitCommon
    /\ files = EmptyMap
    /\ quota = EmptyMap
    /\ shares = EmptyMap
    /\ subs = Put(EmptyMap, "e1", [user |-> "alice", p256dh_key |-> "k1", is_active |-> TRUE])
    /\ notifs = EmptyMap
    /\ attempts = {}
    /\ sessions = EmptyMap

\* the bodies of the PATCH requests tried
UpdatePayloads ==
    {[scheduled_time |-> MaxNotifTime], [max_snooze_count |-> 0],
     [title |-> "t1", max_snooze_count |-> 0]}

NextNotif ==
    \/ \E u \in Users, t \in {0, 1}, m \in {1, 2} : create_scheduled_notification(u, t, m)
    \/ \E u \in Users, id \in NotifIds, p \in UpdatePayloads :
            update_scheduled_notification(u, id, p)
    \/ \E u \in Users, id \in NotifIds, d \in {None, 0, 2} : snooze_notification(u, id, d)
    \/ \E u \in Users, id \in NotifIds : cancel_scheduled_notification(u, id)
    \/ \E o \in [NotifIds -> {Sent, Gone410, OtherError, TryRaises}] :
            process_scheduled_notifications(o)
    \/ Tick(MaxNotifTime)

SpecNotif == InitNotif /\ [][NextNotif]_vars

----------------------------------------------------------------------------
(* Properties of the scheduled notifications                               *)

\* what a snooze call by the owner of `id` must do, written from the
\* counters of the record before the call
C3_SnoozeStep(id, d) ==
    LET n == notifs[id]
        duration == IF d # None /\ d # 0 THEN d ELSE n.snooze_duration_minutes
    IN IF n.snooze_count < n.max_snooze_count
       THEN /\ resp'.status = 200
            /\ notifs'[id] = [n EXCEPT
                    !.status = "snoozed",
                    !.snooze_count = n.snooze_count + 1,
                    !.scheduled_time = now + duration,
                    !.original_scheduled_time =
                        IF n.original_scheduled_time = None
                        THEN n.scheduled_time ELSE n.original_scheduled_time]
       ELSE /\ resp'.status = 400
            /\ notifs' = notifs

\* C3: a snooze call by the owner succeeds exactly while snooze_count is
\* below max_snooze_count; a successful call sets status snoozed, adds 1 to
\* snooze_count, moves scheduled_time to now + duration and sets
\* original_scheduled_time, if not yet set, to the scheduled_time held just
\* before; a call at the cap answers 400 and changes no field.  No other
\* step changes snooze_count, and once set original_scheduled_time never
\* changes: so with max_snooze_count = N exactly the first N calls succeed.
C3_SnoozeCap ==
    [][ /\ \A u \in Users, id \in NotifIds, d \in {None, 0, 1, 2} :
              (owns_notification(u, id) /\ snooze_notification(u, id, d))
                  => C3_SnoozeStep(id, d)
        /\ \A id \in DOMAIN notifs :
              /\ notifs'[id].snooze_count # notifs[id].snooze_count
                    => /\ resp'.op = "snooze_notification"
                       /\ resp'.status = 200
                       /\ notifs'[id].snooze_count = notifs[id].snooze_count + 1
              /\ notifs[id].original_scheduled_time # None
                    => notifs'[id].original_scheduled_time
                            = notifs[id].original_scheduled_time
      ]_vars

\* a snooze call was just refused at the cap, after snoozes that moved the
\* notification away from the scheduled_time it first had
C3_Witness ==
    /\ resp.op = "snooze_notification"
    /\ resp.status = 400
    /\ \E id \in DOMAIN notifs :
          /\ notifs[id].max_snooze_count = 2
          /\ notifs[id].snooze_count = 2
          /\ notifs[id].status = "snoozed"
          /\ notifs[id].original_scheduled_time # None
          /\ notifs[id].original_scheduled_time # notifs[id].scheduled_time

\* C4: once a notification is sent, cancelled or failed, no step (update,
\* snooze, cancel, dispatch) changes its status again.
C4_TerminalStatusKept ==
    [][ \A id \in DOMAIN notifs :
            notifs[id].status \in Terminal
                => notifs'[id].status = notifs[id].status ]_vars

\* what a dispatch run must leave, written from the records at its start
C5_DispatchStep(o) ==
    \A id \in DOMAIN notifs :
        LET n == notifs[id]
            due == n.status \in {"pending", "snoozed"} /\ n.scheduled_time <= now
            delivered ==
                /\ o[id] # TryRaises
                /\ \E order \in Orders(active_subscriptions(subs, n.user)) :
                      send_push_notification_to_user(
                          subs, n.user, order, [e \in Endpoints |-> o[id]]).success
        IN IF ~due THEN notifs'[id] = n
           ELSE IF delivered
           THEN notifs'[id] = [n EXCEPT !.status = "sent", !.sent_at = now]
           ELSE notifs'[id] = [n EXCEPT !.status = "failed"]

\* C5: a dispatch run changes exactly the notifications that were pending or
\* snoozed with scheduled_time <= now at its start: each becomes sent with
\* sent_at = now when delivery reported success, failed when delivery
\* reported failure or raised; every other notification is left as it was.
C5_DispatchRun ==
    [][ \A o \in [NotifIds -> {Sent, Gone410, OtherError, TryRaises}] :
            process_scheduled_notifications(o)
                => (DOMAIN notifs' = DOMAIN notifs /\ C5_DispatchStep(o)) ]_vars

\* a dispatch run has just delivered a snoozed notification that had come due
C5_Witness ==
    /\ resp.op = "process_scheduled_notifications"
    /\ resp.detail = 1
    /\ \E id \in DOMAIN notifs :
          /\ notifs[id].status = "sent"
          /\ notifs[id].sent_at = now
          /\ notifs[id].snooze_count = 1
          /\ notifs[id].scheduled_time <= now

\* what an update call by the owner of `id` must do
C16_UpdateStep(id, payload) ==
    LET n == notifs[id] IN
    IF n.status \in {"sent", "cancelled", "failed"}
    THEN resp'.status = 400 /\ notifs' = notifs
    ELSE /\ resp'.status = 200
         /\ \A f \in DOMAIN n :
               notifs'[id][f] = IF f \in DOMAIN payload THEN payload[f] ELSE n[f]
         /\ \A f \in {"status", "snooze_count", "original_scheduled_time", "sent_at"} :
               notifs'[id][f] = n[f]
         /\ \A other \in DOMAIN notifs \ {id} : notifs'[other] = notifs[other]

\* C16: an update call on a sent, cancelled or failed notification answers
\* 400 and changes no field; on a pending or snoozed notification it changes
\* only the fields present in the request, and never status, snooze_count,
\* original_scheduled_time or sent_at.
C16_UpdateRules ==
    [][\A u \in Users, id \in DOMAIN notifs, p \in UpdatePayloads :
        (update_scheduled_notification(u, id, p) /\ notifs[id].user = u)
            => C16_UpdateStep(id, p)]_vars

\* an update of a notification that was sent after a snooze has just been
\* refused
C16_Witness ==
    /\ resp.op = "update_scheduled_notification"
    /\ resp.status = 400
    /\ \E id \in DOMAIN notifs :
          /\ notifs[id].status = "sent"
          /\ notifs[id].snooze_count = 1
          /\ notifs[id].title = "t0"

\* C23: for a ScheduledNotification created with max_snooze_count >= 0,
\* 0 <= snooze_count <= max_snooze_count holds in every reachable state,
\* after any sequence of update, snooze, cancel and dispatch.
C23_SnoozeCountWithinCap ==
    \A id \in DOMAIN notifs :
        /\ 0 <= notifs[id].snooze_count
        /\ notifs[id].snooze_count <= notifs[id].max_snooze_count

----------------------------------------------------------------------------
(* The dispatch job step by step.  A run of process_scheduled_notifications *)
(* evaluates its queryset once, when the for loop starts, and then works   *)
(* on the model instances it fetched; API requests and other runs of the   *)
(* task are served between two iterations.  running[w] is the run of       *)
(* Celery worker w: the instances still to process and the notifications   *)
(* it has logged as sent.                                                  *)

Workers == {"w1", "w2"}

\* the fetched instances, in Meta.ordering (scheduled_time)
RECURSIVE fetch(_, _)
fetch(ns, ids) ==
    IF ids = {} THEN <<>>
    ELSE LET id == CHOOSE x \in ids : \A y \in ids :
                        \/ ns[x].scheduled_time < ns[y].scheduled_time
                        \/ ns[x].scheduled_time = ns[y].scheduled_time /\ x <= y
         IN <<[id |-> id, row |-> ns[id]]>> \o fetch(ns, ids \ {id})

\* now = timezone.now(); the queryset; the first step of the for loop
dispatch_select(w) ==
    /\ w \notin DOMAIN running
    /\ running' = Put(running, w,
                      [queue |-> fetch(notifs, due_notifications(notifs)), sent |-> {}])
    /\ resp' = Response("dispatch_select", 200)
    /\ UNCHANGED <<now, files, quota, shares, subs, notifs, attempts, sessions, turn, call>>

dispatch_send_Mutant(w, o) ==
    /\ w \in DOMAIN running
    /\ running[w].queue # <<>>
    /\ LET id == Head(running[w].queue).id
           row == notifs[id]
           act == active_subscriptions(subs, row.user)
       IN \E order \in Orders(act) :
            LET r == send_push_notification_to_user(
                         subs, row.user, order, [e \in Endpoints |-> o])
            IN IF row.status \notin {"pending", "snoozed"}
               THEN /\ UNCHANGED <<notifs, subs, attempts>>
                    /\ running' = [running EXCEPT ![w].queue = Tail(@)]
                    /\ resp' = Result("dispatch_send", 204, id)
               ELSE IF o # TryRaises /\ r.success
               THEN /\ notifs' = [notifs EXCEPT ![id] = mark_sent(row)]
                    /\ subs' = r.subs
                    /\ attempts' = r.attempts
                    /\ running' = [running EXCEPT ![w].queue = Tail(@),
                                                  ![w].sent = @ \cup {id}]
                    /\ resp' = Result("dispatch_send", 200, id)
               ELSE /\ notifs' = [notifs EXCEPT ![id] = mark_failed(row)]
                    /\ subs' = IF o = TryRaises THEN subs ELSE r.subs
                    /\ attempts' = IF o = TryRaises THEN {} ELSE r.attempts
                    /\ running' = [running EXCEPT ![w].queue = Tail(@)]
                    /\ resp' = Result("dispatch_send", 500, id)
    /\ UNCHANGED <<now, files, quota, shares, sessions, turn, call>>

\* one iteration of the for loop, on the instance fetched by the queryset:
\* the push is sent for it, and mark_sent() or status = 'failed' followed by
\* save() write every field of the instance
dispatch_send(w, o) ==
    /\ w \in DOMAIN running
    /\ running[w].queue # <<>>
    /\ LET id == Head(running[w].queue).id
           row == Head(running[w].queue).row
           act == active_subscriptions(subs, row.user)
       IN \E order \in Orders(act) :
            LET r == send_push_notification_to_user(
                         subs, row.user, order, [e \in Endpoints |-> o])
            IN IF o # TryRaises /\ r.success
               THEN /\ notifs' = [notifs EXCEPT ![id] = mark_sent(row)]
                    /\ subs' = r.subs
                    /\ attempts' = r.attempts
                    /\ running' = [running EXCEPT ![w].queue = Tail(@),
                                                  ![w].sent = @ \cup {id}]
                    /\ resp' = Result("dispatch_send", 200, id)
               ELSE /\ notifs' = [notifs EXCEPT ![id] = mark_failed(row)]
                    /\ subs' = IF o = TryRaises THEN subs ELSE r.subs
                    /\ attempts' = IF o = TryRaises THEN {} ELSE r.attempts
                    /\ running' = [running EXCEPT ![w].queue = Tail(@)]
                    /\ resp' = Result("dispatch_send", 500, id)
    /\ UNCHANGED <<now, files, quota, shares, sessions, turn, call>>

\* the loop is over: return {"sent": sent_count, "failed": failed_count}
dispatch_return(w) ==
    /\ w \in DOMAIN running
    /\ running[w].queue = <<>>
    /\ running' = Drop(running, {w})
    /\ resp' = Result("process_scheduled_notifications", 200,
                      Cardinality(running[w].sent))
    /\ UNCHANGED <<now, files, quota, shares, subs, notifs, attempts, sessions, turn, call>>

NextDispatch ==
    \/ \E m \in {1, 2} : create_scheduled_notification("alice", 0, m)
    \/ \E id \in NotifIds : update_scheduled_notification("alice", id, [title |-> "t1"])
    \/ \E id \in NotifIds : snooze_notification("alice", id, None)
    \/ \E id \in NotifIds : cancel_scheduled_notification("alice", id)
    \/ \E w \in Workers : dispatch_select(w)
    \/ \E w \in Workers, o \in {Sent, OtherError, TryRaises} : dispatch_send(w, o)
    \/ \E w \in Workers : dispatch_return(w)
    \/ Tick(MaxNotifTime)

SpecDispatch == InitNotif /\ [][NextDispatch]_vars

\* the step is an iteration of a dispatch run that sent the push for id
C22_Delivered(id) ==
    /\ resp'.op = "dispatch_send"
    /\ resp'.status = 200
    /\ resp'.detail = id

\* C22: once the cancel endpoint has returned success for a notification,
\* that notification is never delivered afterwards, whatever API calls
\* (snooze, update, cancel) follow, and also when a dispatch run that had
\* already selected it is in progress at the moment of the cancel: a
\* cancelled notification stays cancelled and no step delivers it.
C22_NoDeliveryAfterCancel ==
    [][\A id \in DOMAIN notifs :
        notifs[id].status = "cancelled" =>
            /\ notifs'[id].status = "cancelled"
            /\ ~C22_Delivered(id)]_vars

\* worker w has just processed the instance at the head of its queue
C25_Iteration(w) ==
    /\ resp'.op = "dispatch_send"
    /\ w \in DOMAIN running
    /\ running[w].queue # <<>>
    /\ running'[w].queue = Tail(running[w].queue)
    /\ \A v \in DOMAIN running \ {w} : running'[v] = running[v]

\* C25: delivery is not at-most-once under overlapping dispatch runs.  A run
\* that selects its due notifications leaves their rows as they are, still
\* pending or snoozed, so an overlapping run selects them too; and each run
\* sends the push for every instance it fetched, whatever has happened to
\* the row since (another run may have sent it), and then saves the fetched
\* instance as sent or failed.
C25_RunsDoNotExclude ==
    [][/\ resp'.op = "dispatch_select" =>
            /\ notifs' = notifs
            /\ \A w \in DOMAIN running' \ DOMAIN running :
                 {running'[w].queue[i].id : i \in 1..Len(running'[w].queue)}
                    = {id \in DOMAIN notifs :
                          /\ notifs[id].status \in {"pending", "snoozed"}
                          /\ notifs[id].scheduled_time <= now}
       /\ \A w \in Workers : C25_Iteration(w) =>
            LET id == Head(running[w].queue).id
                row == Head(running[w].queue).row
            IN /\ resp'.detail = id
               /\ \/ /\ resp'.status = 200
                     /\ id \in running'[w].sent
                     /\ notifs'[id] = [row EXCEPT !.status = "sent", !.sent_at = now]
                  \/ /\ resp'.status = 500
                     /\ running'[w].sent = running[w].sent
                     /\ notifs'[id] = [row EXCEPT !.status = "failed"]
      ]_vars

\* two runs in progress have each delivered the same notification
C25_Witness ==
    /\ {"w1", "w2"} \subseteq DOMAIN running
    /\ running["w1"].sent \cap running["w2"].sent # {}

\* a stored time one tick later, seen from a clock that stands still
\* (None: not set; a time at the origin stays there)
earlier(t) == IF t = None \/ t = 0 THEN t ELSE t - 1

\* a ScheduledNotification row one tick later, seen from such a clock
aged(n) ==
    [n EXCEPT !.scheduled_time = earlier(@),
              !.original_scheduled_time = earlier(@),
              !.sent_at = earlier(@)]

\* Time passes without bound.  Up to the horizon the clock advances; from
\* there on the clock stands and every stored time moves back instead, so
\* that `scheduled_time <= now` reads as it would with the clock advanced.
Elapse(horizon) ==
    IF now < horizon THEN Tick(horizon)
    ELSE /\ notifs' = [id \in DOMAIN notifs |-> aged(notifs[id])]
         /\ running' = [w \in DOMAIN running |->
                [running[w] EXCEPT !.queue =
                    [i \in 1..Len(running[w].queue) |->
                        [running[w].queue[i] EXCEPT !.row = aged(@)]]]]
         /\ resp' = Response("tick", 200)
         /\ UNCHANGED <<now, files, quota, shares, subs, attempts, sessions, turn, call>>

\* the owner only snoozes and cancels; dispatch runs overlap
NextSettle ==
    \/ \E m \in {1, 2} : create_scheduled_notification("alice", 0, m)
    \/ \E id \in NotifIds : snooze_notification("alice", id, None)
    \/ \E id \in NotifIds : cancel_scheduled_notification("alice", id)
    \/ \E w \in Workers : dispatch_select(w)
    \/ \E w \in Workers, o \in {Sent, OtherError, TryRaises} : dispatch_send(w, o)
    \/ \E w \in Workers : dispatch_return(w)
    \/ Elapse(MaxNotifTime)

\* Celery beat starts process_scheduled_notifications again and again and a
\* worker that has started a run carries it through; time passes.
FairDispatch ==
    /\ WF_vars(Elapse(MaxNotifTime))
    /\ \A w \in Workers :
        /\ WF_vars(dispatch_select(w))
        /\ WF_vars(\E o \in {Sent, OtherError, TryRaises} : dispatch_send(w, o))
        /\ WF_vars(dispatch_return(w))

SpecSettle == InitNotif /\ [][NextSettle]_vars /\ FairDispatch

\* C30: if the dispatch job keeps running and time advances, and the owner
\* issues only snooze and cancel calls, every ScheduledNotification
\* eventually reaches and then remains within the statuses sent, cancelled
\* and failed and is not selected for delivery again: at most
\* max_snooze_count snooze calls ever succeed, so snoozing cannot defer a
\* notification forever.
C30_EventuallySettled ==
    \A id \in NotifIds :
        <>[](id \in DOMAIN notifs =>
                /\ notifs[id].status \in Terminal
                /\ id \notin due_notifications(notifs))

\* a delivered notification whose snoozes are used up has just been refused
\* a further one
C30_Witness ==
    \E id \in DOMAIN notifs :
        /\ notifs[id].status = "sent"
        /\ notifs[id].snooze_count >= 1
        /\ notifs[id].snooze_count = notifs[id].max_snooze_count
        /\ resp = Response("snooze_notification", 400)

----------------------------------------------------------------------------
(* Reminder texts: parse_reminder_datetime of notifications/utils.py.      *)
(* A text is a sequence of characters.  A moment is [day, hour, minute]:   *)
(* day counts the days from a Monday, so its weekday is day % 7 with 0 for *)
(* Monday as datetime.weekday() has it.                                    *)

default_hour == 7
default_minute == 0

\* `word in text` of Python on strings
Contains(text, word) ==
    \E i \in 1..(Len(text) - Len(word) + 1) : SubSeq(text, i, i + Len(word) - 1) = word

\* the groups of the match of  at\s+(\d{1,2})(?::(\d{2}))?\s*(am|pm)?
NoMatch == [hour |-> None, minute |-> None, am_pm |-> ""]
NoTime == [hour |-> None, minute |-> None]
NoMoment == [day |-> None, hour |-> None, minute |-> None]

\* extracted_time: the 24-hour (hour, minute) of the match
extract_time(time_match) ==
    IF time_match.hour = None THEN NoTime
    ELSE [hour |-> IF time_match.am_pm = "pm" /\ time_match.hour # 12
                   THEN time_match.hour + 12
                   ELSE IF time_match.am_pm = "am" /\ time_match.hour = 12
                        THEN 0 ELSE time_match.hour,
          minute |-> IF time_match.minute = None THEN 0 ELSE time_match.minute]

\* the weekdays dict, in its insertion order
weekdays ==
    << [name |-> <<"m", "o", "n", "d", "a", "y">>, num |-> 0],
       [name |-> <<"m", "o", "n">>, num |-> 0],
       [name |-> <<"t", "u", "e", "s", "d", "a", "y">>, num |-> 1],
       [name |-> <<"t", "u", "e">>, num |-> 1],
       [name |-> <<"t", "u", "e", "s">>, num |-> 1],
       [name |-> <<"w", "e", "d", "n", "e", "s", "d", "a", "y">>, num |-> 2],
       [name |-> <<"w", "e", "d">>, num |-> 2],
       [name |-> <<"t", "h", "u", "r", "s", "d", "a", "y">>, num |-> 3],
       [name |-> <<"t", "h", "u">>, num |-> 3],
       [name |-> <<"t", "h", "u", "r">>, num |-> 3],
       [name |-> <<"t", "h", "u", "r", "s">>, num |-> 3],
       [name |-> <<"f", "r", "i", "d", "a", "y">>, num |-> 4],
       [name |-> <<"f", "r", "i">>, num |-> 4],
       [name |-> <<"s", "a", "t", "u", "r", "d", "a", "y">>, num |-> 5],
       [name |-> <<"s", "a", "t">>, num |-> 5],
       [name |-> <<"s", "u", "n", "d", "a", "y">>, num |-> 6],
       [name |-> <<"s", "u", "n">>, num |-> 6] >>

tomorrow == <<"t", "o", "m", "o", "r", "r", "o", "w">>
today == <<"t", "o", "d", "a", "y">>
next == <<"n", "e", "x", "t">>
later == <<"l", "a", "t", "e", "r">>

weekday(moment) == moment.day % 7

\* moment + timedelta(days=n), moment + timedelta(hours=1)
plus_days(moment, n) == [moment EXCEPT !.day = @ + n]
plus_hour(moment) ==
    IF moment.hour = 23 THEN [moment EXCEPT !.day = @ + 1, !.hour = 0]
    ELSE [moment EXCEPT !.hour = @ + 1]

\* moment.replace(hour=, minute=, second=0, microsecond=0)
replace(moment, hour, minute) == [day |-> moment.day, hour |-> hour, minute |-> minute]

\* the captured time on the day of the moment, else the 07:00 default
at_time(moment, extracted_time) ==
    IF extracted_time # NoTime
    THEN replace(moment, extracted_time.hour, extracted_time.minute)
    ELSE replace(moment, default_hour, default_minute)

days_ahead_Mutant(day_num, current_weekday, has_next) ==
    LET d == day_num - current_weekday IN
    IF has_next \/ d < 0 THEN d + 7 ELSE d

\* days_ahead = day_num - current_weekday, plus 7 when "next" is in the text
\* or the day is today or has passed this week
days_ahead(day_num, current_weekday, has_next) ==
    LET d == day_num - current_weekday IN
    IF has_next \/ d <= 0 THEN d + 7 ELSE d

\* the texts of the model hold no "in N units" clause and no written date,
\* so patterns 1 and 5 do not match them
parse_reminder_datetime(text, time_match, nw) ==
    LET extracted_time == extract_time(time_match)
        hits == {i \in 1..Len(weekdays) : Contains(text, weekdays[i].name)}
        first == CHOOSE i \in hits : \A j \in hits : i <= j
    IN
    IF Contains(text, tomorrow) THEN at_time(plus_days(nw, 1), extracted_time)
    ELSE IF Contains(text, today)
    THEN IF extracted_time # NoTime
         THEN replace(nw, extracted_time.hour, extracted_time.minute)
         ELSE IF nw.hour >= default_hour THEN plus_hour(nw)
              ELSE replace(nw, default_hour, default_minute)
    ELSE IF hits # {}
    THEN at_time(plus_days(nw, days_ahead(weekdays[first].num, weekday(nw),
                                          Contains(text, next))),
                 extracted_time)
    ELSE IF extracted_time # NoTime
    THEN LET result == replace(nw, extracted_time.hour, extracted_time.minute) IN
         IF result.hour * 60 + result.minute <= nw.hour * 60 + nw.minute
         THEN plus_days(result, 1) ELSE result
    ELSE NoMoment

\* the reminder texts of the model: a weekday name, "tomorrow", "today" or
\* "later", after "next " or not, with or without an "at H[:MM][am|pm]" clause
DateWords == {weekdays[i].name : i \in 1..Len(weekdays)} \cup {tomorrow, today, later}
TimeMatches ==
    { NoMatch,
      [hour |-> 9, minute |-> None, am_pm |-> ""],
      [hour |-> 3, minute |-> None, am_pm |-> "pm"],
      [hour |-> 12, minute |-> 30, am_pm |-> "am"],
      [hour |-> 12, minute |-> None, am_pm |-> "pm"] }
Moments == {[day |-> d, hour |-> h, minute |-> 15] : d \in 0..6, h \in {6, 9, 23}}
ReminderText(has_next, word) == IF has_next THEN next \o <<" ">> \o word ELSE word

call_parse_reminder_datetime ==
    /\ call.fn = "reminder"
    /\ call' = [call EXCEPT
                  !.fn = "parse_reminder_datetime",
                  !.result = parse_reminder_datetime(call.text, call.time_match, call.now)]
    /\ resp' = Response("parse_reminder_datetime", 200)
    /\ UNCHANGED <<now, files, quota, shares, subs, notifs, attempts, sessions, turn, running>>

InitParse ==
    /\ now = 0
    /\ turn = NoTurn
    /\ running = EmptyMap
    /\ resp = Response("init", 200)
    /\ files = EmptyMap
    /\ quota = EmptyMap
    /\ shares = EmptyMap
    /\ subs = EmptyMap
    /\ notifs = EmptyMap
    /\ attempts = {}
    /\ sessions = EmptyMap
    /\ call \in {[fn |-> "reminder", has_next |-> nx, word |-> w,
                  text |-> ReminderText(nx, w), time_match |-> m, now |-> nw,
                  result |-> NoMoment] :
                 nx \in BOOLEAN, w \in DateWords, m \in TimeMatches, nw \in Moments}

NextParse == call_parse_reminder_datetime

SpecParse == InitParse /\ [][NextParse]_vars

\* the weekday a word names, by its first three letters (0 = Monday)
C20_Abbreviations == << <<"m", "o", "n">>, <<"t", "u", "e">>, <<"w", "e", "d">>, <<"t", "h", "u">>, <<"f", "r", "i">>, <<"s", "a", "t">>, <<"s", "u", "n">> >>
C20_IsWeekday(word) == \E n \in 1..7 : SubSeq(word, 1, 3) = C20_Abbreviations[n]
C20_Named(word) == (CHOOSE n \in 1..7 : SubSeq(word, 1, 3) = C20_Abbreviations[n]) - 1

\* the 24-hour clock time written in an "at H[:MM][am|pm]" clause
C20_Clock(m) ==
    [hour |-> IF m.am_pm = "" THEN m.hour
              ELSE (m.hour % 12) + (IF m.am_pm = "pm" THEN 12 ELSE 0),
     minute |-> IF m.minute = None THEN 0 ELSE m.minute]

\* C20: for every current weekday and every weekday named in the text,
\* parse_reminder_datetime returns a moment d days after today whose weekday
\* is the named one, with 1 <= d <= 7 when the text lacks the word "next"
\* and 1 <= d <= 13 when it contains it, at the captured clock time or at
\* 07:00 when none was captured.
C20_NamedWeekday ==
    (call.fn = "parse_reminder_datetime" /\ C20_IsWeekday(call.word)) =>
        LET d == call.result.day - call.now.day IN
        /\ call.result # NoMoment
        /\ call.result.day % 7 = C20_Named(call.word)
        /\ 1 <= d
        /\ d <= (IF call.has_next THEN 13 ELSE 7)
        /\ IF call.time_match = NoMatch
           THEN call.result.hour = 7 /\ call.result.minute = 0
           ELSE /\ call.result.hour = C20_Clock(call.time_match).hour
                /\ call.result.minute = C20_Clock(call.time_match).minute

\* a weekday named late on that same weekday, without "next" and without a
\* time: the same weekday a week later, at 07:00
C20_Witness ==
    /\ call.fn = "parse_reminder_datetime"
    /\ C20_IsWeekday(call.word)
    /\ ~call.has_next
    /\ call.time_match = NoMatch
    /\ C20_Named(call.word) = call.now.day % 7
    /\ call.now.hour = 23
    /\ call.result = [day |-> call.now.day + 7, hour |-> 7, minute |-> 0]

----------------------------------------------------------------------------
(* The tool registry: langchain_chat/tools/registry.py                     *)

\* A registered tool: its name, the module of its class as a list of path
\* components, and the lower-case words its name and description contain.
\* The three tools of the repository are made by the @tool decorator, so
\* their class is StructuredTool of langchain_core.tools.structured.
StructuredModule == <<"langchain_core", "tools", "structured">>
RepoRegistry ==
    << [name |-> "calculator", module |-> StructuredModule, words |-> {"calc", "math"}],
       [name |-> "get_current_time", module |-> StructuredModule, words |-> {"time"}],
       [name |-> "get_weather", module |-> StructuredModule, words |-> {"weather"}] >>

\* the same tools written as BaseTool subclasses in their own modules
ClassRegistry ==
    << [name |-> "calculator",
        module |-> <<"langchain_chat", "tools", "math", "calculator">>,
        words |-> {"calc", "math"}],
       [name |-> "get_current_time",
        module |-> <<"langchain_chat", "tools", "time", "current_time">>,
        words |-> {"time"}],
       [name |-> "get_weather",
        module |-> <<"langchain_chat", "tools", "weather", "weather_api">>,
        words |-> {"weather", "time"}] >>

Registries == {RepoRegistry, ClassRegistry}
ToolNames == {"calculator", "get_current_time", "get_weather"}

\* the names of the tools of the registry that are in the set keep, in
\* registration order
SelectNames(reg, keep) ==
    LET F[i \in 0..Len(reg)] ==
            IF i = 0 THEN <<>>
            ELSE IF reg[i] \in keep THEN Append(F[i - 1], reg[i].name) ELSE F[i - 1]
    IN F[Len(reg)]

Tools(reg) == {reg[i] : i \in 1..Len(reg)}

\* q[:n] of Python, for n >= 0
Take(q, n) == SubSeq(q, 1, IF n < Len(q) THEN n ELSE Len(q))

registered(reg, name) == \E i \in 1..Len(reg) : reg[i].name = name

\* ToolRegistry._get_category: parts[2] of the module path when it has more
\* than 3 parts, else 'general'
get_category(tool) ==
    IF Len(tool.module) > 3 THEN tool.module[3] ELSE "general"

\* [self._tools[name] for name in names if name in self._tools]
known(reg, names) ==
    LET F[i \in 0..Len(names)] ==
            IF i = 0 THEN <<>>
            ELSE IF registered(reg, names[i])
                 THEN Append(F[i - 1], names[i]) ELSE F[i - 1]
    IN F[Len(names)]

\* ToolRegistry.get_tools(tool_names): the named tools that are registered,
\* in the order of the list; every tool for an empty list
get_tools(reg, names) ==
    IF names # <<>> THEN known(reg, names)
    ELSE SelectNames(reg, Tools(reg))

\* ToolRegistry.get_tools_by_category
get_tools_by_category(reg, categories) ==
    SelectNames(reg, {t \in Tools(reg) : get_category(t) \in categories})

\* str.lower() on the queries of the model
lower(q) == IF q = "TIME" THEN "time" ELSE q

\* ToolRegistry.search_tools: keyword match on name and description
search_tools(reg, query) ==
    SelectNames(reg, {t \in Tools(reg) : lower(query) \in t.words})

\* collection.query(n_results=n, where=...): the n nearest of the indexed
\* tools that pass the filter, in the order `ranking` of the index
chroma_query(reg, ranking, n, categories) ==
    LET pass(name) == \/ categories = {}
                      \/ \E i \in 1..Len(reg) :
                            reg[i].name = name /\ get_category(reg[i]) \in categories
        F[i \in 0..Len(ranking)] ==
            IF i = 0 THEN <<>>
            ELSE IF pass(ranking[i]) THEN Append(F[i - 1], ranking[i]) ELSE F[i - 1]
    IN Take(F[Len(ranking)], n)

\* ToolRegistry.get_relevant_tools(query, max_tools, categories).
\* index = [up, raises, ranking]: whether the ChromaDB collection exists,
\* whether its query raises, and the order in which it ranks the tool ids;
\* a query for n_results < 1 raises.  categories = {} stands for None/[].
get_relevant_tools(reg, index, query, max_tools, categories) ==
    IF ~index.up
    THEN IF categories # {}
         THEN get_tools_by_category(reg, categories)
         ELSE Take(SelectNames(reg, Tools(reg)), max_tools)
    ELSE LET n == IF max_tools < Len(reg) THEN max_tools ELSE Len(reg) IN
         IF index.raises \/ n < 1
         THEN Take(search_tools(reg, query), max_tools)
         ELSE known(reg, chroma_query(reg, index.ranking, n, categories))

\* Calls of get_relevant_tools on a registry, by the state of its index.
MaxTools == 3
Categories == {"general", "math", "weather"}
Queries == {"time", "TIME", "math"}
ToolIndexes ==
    { [up |-> FALSE, raises |-> FALSE, ranking |-> <<>>],
      [up |-> TRUE, raises |-> TRUE, ranking |-> <<>>],
      [up |-> TRUE, raises |-> FALSE,
       ranking |-> <<"get_weather", "calculator", "get_current_time">>],
      [up |-> TRUE, raises |-> FALSE, ranking |-> <<"get_current_time", "removed">>] }

call_get_relevant_tools(reg, index, query, max_tools, categories) ==
    /\ call' = [fn |-> "get_relevant_tools", reg |-> reg, index |-> index,
                query |-> query, max_tools |-> max_tools, categories |-> categories,
                result |-> get_relevant_tools(reg, index, query, max_tools, categories)]
    /\ resp' = Response("get_relevant_tools", 200)
    /\ UNCHANGED <<now, files, quota, shares, subs, notifs, attempts, sessions, turn, running>>

InitTools ==
    /\ InitCommon
    /\ files = EmptyMap
    /\ quota = EmptyMap
    /\ shares = EmptyMap
    /\ subs = EmptyMap
    /\ notifs = EmptyMap
    /\ attempts = {}
    /\ sessions = EmptyMap

NextTools ==
    \E reg \in Registries, index \in ToolIndexes, query \in Queries,
       max_tools \in 0..MaxTools, categories \in SUBSET Categories :
        call_get_relevant_tools(reg, index, query, max_tools, categories)

SpecTools == InitTools /\ [][NextTools]_vars

\* C19: get_relevant_tools(query, max_tools, categories) never returns more
\* than max_tools tools, in every mode (semantic search, the non-semantic
\* fallback with or without a category filter, the keyword fallback after a
\* failed index query); in the non-semantic fallback the result is the first
\* max_tools matching tools in registration order.
C19_AtMostMaxTools ==
    call.fn = "get_relevant_tools" =>
        /\ Len(call.result) <= call.max_tools
        /\ ~call.index.up =>
              call.result =
                Take(SelectNames(call.reg,
                         {t \in Tools(call.reg) :
                             \/ call.categories = {}
                             \/ get_category(t) \in call.categories}),
                     call.max_tools)

----------------------------------------------------------------------------
(* Chat sessions: langchain_chat/api.py and AgentService                   *)

SessionIds == 1..MaxSessions

\* Texts are sequences of characters.
Question == <<"q">>                 \* payload.message
ErrorText == <<"E">>                \* f"I encountered an error: {str(e)}"
Processing == <<"P">>               \* f"Processing: {user_input}"
SystemPrompt == <<"s">>

\* str.split(): the maximal runs of characters that are not blanks
Split(text) ==
    LET F[i \in 0..Len(text)] ==
            IF i = 0 THEN [words |-> <<>>, word |-> <<>>]
            ELSE IF text[i] = " "
                 THEN IF F[i - 1].word = <<>> THEN F[i - 1]
                      ELSE [words |-> Append(F[i - 1].words, F[i - 1].word),
                            word |-> <<>>]
                 ELSE [words |-> F[i - 1].words,
                       word |-> Append(F[i - 1].word, text[i])]
        r == F[Len(text)]
    IN IF r.word = <<>> THEN r.words ELSE Append(r.words, r.word)

\* the concatenation of a sequence of texts
Concat(texts) ==
    LET F[i \in 0..Len(texts)] == IF i = 0 THEN <<>> ELSE F[i - 1] \o texts[i]
    IN F[Len(texts)]

\* What the world outside the handler does during one turn:
\*   index        the semantic index (see get_relevant_tools)
\*   llm_raises   the model is unavailable: llm.invoke / llm.stream raises
\*   chunks       the chunks the model streams (its answer is their concatenation)
\*   agent_raises executor.invoke raises (a tool exception, the model down)
\*   nsteps       the number of intermediate steps the executor returns
\*   output       the executor's final answer
\*   save_raises  creating the first ToolExecution row fails
\*   store_raises creating the ai Message of the reply fails
Env(index, llm_raises, chunks, agent_raises, nsteps, output, save_raises, store_raises) ==
    [index |-> index, llm_raises |-> llm_raises, chunks |-> chunks,
     agent_raises |-> agent_raises, nsteps |-> nsteps, output |-> output,
     save_raises |-> save_raises, store_raises |-> store_raises]

\* the semantic index finds nothing, or ranks the calculator first
IndexNothing == [up |-> TRUE, raises |-> FALSE, ranking |-> <<>>]
IndexCalculator == [up |-> TRUE, raises |-> FALSE,
                    ranking |-> <<"calculator", "get_current_time", "get_weather">>]

\* a ChatSession as create_session leaves it, with its system message
NewSession(u, temperature, top_k, tools_enabled) ==
    [user |-> u, show_in_history |-> TRUE,
     temperature |-> temperature, max_tokens |-> 20, top_k |-> top_k,
     tools_enabled |-> tools_enabled,
     messages |-> <<[role |-> "system", content |-> SystemPrompt]>>,
     steps |-> {}, executions |-> 0]

\* a request body without overrides
NoOverride == [temperature |-> None, max_tokens |-> None]

owns_session_Mutant(u, id) == id \in DOMAIN sessions

\* get_object_or_404(ChatSession, id=session_id, user=request.auth)
owns_session(u, id) == id \in DOMAIN sessions /\ sessions[id].user = u

\* the index of the most recent ai message, 0 if there is none:
\* Message.objects.filter(session=..., role='ai').order_by('-created_at').first()
last_ai(msgs) ==
    IF \E i \in 1..Len(msgs) : msgs[i].role = "ai"
    THEN CHOOSE i \in 1..Len(msgs) :
            msgs[i].role = "ai" /\ \A j \in (i + 1)..Len(msgs) : msgs[j].role # "ai"
    ELSE 0

\* The loop of _save_steps over steps i..n for the message at index m.
\* AgentStep has unique_together (message, step_number): a second row with
\* the same pair raises IntegrityError.  [steps, executions, raised]
RECURSIVE save_loop(_, _, _, _, _, _)
save_loop(steps, execs, m, i, n, save_raises) ==
    IF i > n THEN [steps |-> steps, executions |-> execs, raised |-> FALSE]
    ELSE IF <<m, i>> \in steps
    THEN [steps |-> steps, executions |-> execs, raised |-> TRUE]
    ELSE IF save_raises
    THEN [steps |-> steps \cup {<<m, i>>}, executions |-> execs, raised |-> TRUE]
    ELSE save_loop(steps \cup {<<m, i>>}, execs + 1, m, i + 1, n, save_raises)

\* AgentService._save_steps on session record ses: with steps to save and no
\* ai message in the session yet, a placeholder ai message is created to
\* hang the steps on.  [session, raised]
save_steps(ses, n, save_raises) ==
    IF n = 0 THEN [session |-> ses, raised |-> FALSE]
    ELSE LET msgs == IF last_ai(ses.messages) = 0
                     THEN Append(ses.messages, [role |-> "ai", content |-> Processing])
                     ELSE ses.messages
             r == save_loop(ses.steps, ses.executions, last_ai(msgs), 1, n, save_raises)
         IN [session |-> [ses EXCEPT !.messages = msgs, !.steps = r.steps,
                                     !.executions = r.executions],
             raised |-> r.raised]

\* AgentService._initialize_llm, the kwargs of ChatOllama (None: not among
\* them).  'temperature': self.session.temperature or 0.7 (temperatures are
\* in tenths); top_k is passed "if self.session.top_k is not None", and so
\* are top_p, repeat_penalty, seed, num_predict and num_ctx, each by the
\* same test; max_tokens is not among the kwargs.
initialize_llm(ses) ==
    [temperature |-> IF ses.temperature = None \/ ses.temperature = 0
                     THEN 7 ELSE ses.temperature,
     top_k |-> IF ses.top_k # None THEN ses.top_k ELSE None,
     max_tokens |-> None]

select_tools_Mutant(ses, env) ==
    [tools |-> get_relevant_tools(RepoRegistry, env.index, "q", 10, {}),
     searched |-> TRUE]

\* the tool selection at the head of run and stream: [tools, searched]
select_tools(ses, env) ==
    IF ses.tools_enabled # <<>>
    THEN [tools |-> get_tools(RepoRegistry, ses.tools_enabled), searched |-> FALSE]
    ELSE [tools |-> get_relevant_tools(RepoRegistry, env.index, "q", 10, {}),
          searched |-> TRUE]

\* AgentService.run on the session record ses (the human message already
\* stored): [session, raised, content, tools, searched]
run(ses, env) ==
    LET sel == select_tools(ses, env)
        sv == save_steps(ses, env.nsteps, env.save_raises)
        out(ss, raised, content) ==
            [session |-> ss, raised |-> raised, content |-> content,
             tools |-> sel.tools, searched |-> sel.searched]
    IN IF sel.tools = <<>>
       THEN IF env.llm_raises THEN out(ses, TRUE, <<>>)
            ELSE out(ses, FALSE, Concat(env.chunks))
       ELSE IF env.agent_raises THEN out(ses, FALSE, ErrorText)
       ELSE IF sv.raised THEN out(sv.session, FALSE, ErrorText)
       ELSE out(sv.session, FALSE, env.output)

\* the token events of the words of the executor's output
word_events(words) ==
    [i \in 1..Len(words) |->
        [type |-> "token",
         content |-> IF i < Len(words) THEN Append(words[i], " ") ELSE words[i]]]

\* the token events of the chunks of llm.stream: `if chunk.content`
chunk_events(chunks) ==
    LET F[i \in 0..Len(chunks)] ==
            IF i = 0 THEN <<>>
            ELSE IF chunks[i] # <<>>
                 THEN Append(F[i - 1], [type |-> "token", content |-> chunks[i]])
                 ELSE F[i - 1]
    IN F[Len(chunks)]

\* AgentService.stream: the events it yields and whether an exception then
\* leaves the generator.  [session, events, raised, tools, searched]
stream(ses, env) ==
    LET sel == select_tools(ses, env)
        sv == save_steps(ses, env.nsteps, env.save_raises)
        error == <<[type |-> "error", content |-> ErrorText]>>
        out(ss, events, raised) ==
            [session |-> ss, events |-> events, raised |-> raised,
             tools |-> sel.tools, searched |-> sel.searched]
    IN IF sel.tools = <<>>
       THEN out(ses, chunk_events(env.chunks), env.llm_raises)
       ELSE IF env.agent_raises THEN out(ses, error, FALSE)
       ELSE IF sv.raised THEN out(sv.session, error, FALSE)
       ELSE out(sv.session, word_events(Split(env.output)), FALSE)

\* the human Message of the turn
with_human(ses) ==
    [ses EXCEPT !.messages = Append(@, [role |-> "human", content |-> Question])]

with_ai(ses, content) ==
    [ses EXCEPT !.messages = Append(@, [role |-> "ai", content |-> content])]

\* what the turn did, for the properties
Turn(kind, id, ses, r, events, raised) ==
    [kind |-> kind, session |-> id, tools |-> r.tools, searched |-> r.searched,
     llm |-> initialize_llm(ses), events |-> events, raised |-> raised]

\* POST /sessions/{session_id}/chat.  payload = [temperature, max_tokens],
\* None for a field the request leaves out.
chat(u, id, payload, env) ==
    /\ IF ~owns_session(u, id)
       THEN /\ sessions' = sessions
            /\ turn' = turn
            /\ resp' = Response("chat", 404)
       ELSE /\ LET r == run(with_human(sessions[id]), env) IN
               IF r.raised \/ env.store_raises
               THEN /\ sessions' = [sessions EXCEPT ![id] = r.session]
                    /\ turn' = Turn("chat", id, sessions[id], r, <<>>, TRUE)
                    /\ resp' = Response("chat", 500)
               ELSE /\ sessions' = [sessions EXCEPT ![id] = with_ai(r.session, r.content)]
                    /\ turn' = Turn("chat", id, sessions[id], r, <<>>, FALSE)
                    /\ resp' = Response("chat", 200)
            /\ Len(sessions'[id].messages) <= MaxMessages
    /\ UNCHANGED <<now, files, quota, shares, subs, notifs, attempts, call, running>>

\* the events of event_stream() and the session it leaves: start, one
\* content event per token event, then error (an error event of the agent,
\* or any exception) or the ai Message and end
event_stream(ses, env) ==
    LET r == stream(ses, env)
        ev(type, content) == [type |-> type, content |-> content]
        tokens == SelectSeq(r.events, LAMBDA e : e.type = "token")
        contents == [i \in 1..Len(tokens) |-> ev("content", tokens[i].content)]
        full_response == Concat([i \in 1..Len(tokens) |-> tokens[i].content])
        failed == \/ r.raised
                  \/ \E i \in 1..Len(r.events) : r.events[i].type = "error"
                  \/ env.store_raises
    IN [r EXCEPT
          !.session = IF failed THEN r.session ELSE with_ai(r.session, full_response),
          !.events = <<ev("start", <<>>)>> \o contents
                        \o <<ev(IF failed THEN "error" ELSE "end",
                                IF failed THEN ErrorText ELSE full_response)>>,
          !.raised = failed]

\* POST /sessions/{session_id}/chat/stream: the response is a 200 stream
\* whatever the generator meets
chat_stream(u, id, payload, env) ==
    /\ IF ~owns_session(u, id)
       THEN /\ sessions' = sessions
            /\ turn' = turn
            /\ resp' = Response("chat_stream", 404)
       ELSE /\ LET r == event_stream(with_human(sessions[id]), env) IN
               /\ sessions' = [sessions EXCEPT ![id] = r.session]
               /\ turn' = Turn("chat_stream", id, sessions[id], r, r.events, r.raised)
               /\ resp' = Response("chat_stream", 200)
            /\ Len(sessions'[id].messages) <= MaxMessages
    /\ UNCHANGED <<now, files, quota, shares, subs, notifs, attempts, call, running>>

\* GET /sessions/{session_id}
get_session(u, id) ==
    /\ resp' = Response("get_session", IF owns_session(u, id) THEN 200 ELSE 404)
    /\ UNCHANGED <<now, files, quota, shares, subs, notifs, attempts, sessions, turn, call, running>>

\* GET /sessions/{session_id}/messages
get_session_messages(u, id) ==
    /\ resp' = Response("get_session_messages",
                        IF owns_session(u, id) THEN 200 ELSE 404)
    /\ UNCHANGED <<now, files, quota, shares, subs, notifs, attempts, sessions, turn, call, running>>

\* DELETE /sessions/{session_id}
delete_session(u, id) ==
    /\ IF ~owns_session(u, id)
       THEN /\ sessions' = sessions
            /\ resp' = Response("delete_session", 404)
       ELSE /\ sessions' = Drop(sessions, {id})
            /\ resp' = Response("delete_session", 200)
    /\ UNCHANGED <<now, files, quota, shares, subs, notifs, attempts, turn, call, running>>

\* PATCH /sessions/{session_id}/visibility
update_session_visibility(u, id, show) ==
    /\ IF ~owns_session(u, id)
       THEN /\ sessions' = sessions
            /\ resp' = Response("update_session_visibility", 404)
       ELSE /\ sessions' = [sessions EXCEPT ![id].show_in_history = show]
            /\ resp' = Response("update_session_visibility", 200)
    /\ UNCHANGED <<now, files, quota, shares, subs, notifs, attempts, turn, call, running>>

----------------------------------------------------------------------------
(* Chat turns: sessions are created, talked to (blocking and streaming)    *)
(* and deleted by their owner.                                             *)

\* uuid4 primary key of a new ChatSession
NewSessionId == Min(SessionIds \ DOMAIN sessions)

\* POST /sessions
create_session(u, temperature, top_k, tools_enabled) ==
    /\ SessionIds \ DOMAIN sessions # {}
    /\ sessions' = Put(sessions, NewSessionId, NewSession(u, temperature, top_k, tools_enabled))
    /\ resp' = Result("create_session", 200, NewSessionId)
    /\ UNCHANGED <<now, files, quota, shares, subs, notifs, attempts, turn, call, running>>

\* the LLM parameters of the sessions created: none set, both set to 0,
\* both set to another value
SessionParams ==
    { [temperature |-> None, top_k |-> None],
      [temperature |-> 0, top_k |-> 0],
      [temperature |-> 3, top_k |-> 4] }

\* the request bodies tried: no override, a temperature, a max_tokens
Payloads ==
    { NoOverride,
      [temperature |-> 9, max_tokens |-> None],
      [temperature |-> None, max_tokens |-> 5] }

\* the turns tried
ChatEnvs ==
    { \* the model answers "ab" in three chunks, the second one empty
      Env(IndexNothing, FALSE, << <<"a">>, <<>>, <<"b">> >>, FALSE, 0, <<"a">>, FALSE, FALSE),
      \* the model is down
      Env(IndexNothing, TRUE, <<>>, TRUE, 0, <<>>, FALSE, FALSE),
      \* the model goes down after its first chunk
      Env(IndexNothing, TRUE, << <<"a">> >>, TRUE, 0, <<>>, FALSE, FALSE),
      \* the agent answers " a  b" without a tool step
      Env(IndexCalculator, FALSE, <<>>, FALSE, 0, <<" ", "a", " ", " ", "b">>, FALSE, FALSE),
      \* the agent answers after one tool step, after two
      Env(IndexCalculator, FALSE, <<>>, FALSE, 1, <<"a">>, FALSE, FALSE),
      Env(IndexCalculator, FALSE, <<>>, FALSE, 2, <<"a", " ", "b">>, FALSE, FALSE),
      \* a tool raises inside the executor
      Env(IndexCalculator, FALSE, <<>>, TRUE, 0, <<>>, FALSE, FALSE),
      \* the steps cannot be saved
      Env(IndexCalculator, FALSE, <<>>, FALSE, 1, <<"a">>, TRUE, FALSE),
      \* the reply cannot be stored
      Env(IndexNothing, FALSE, << <<"a">> >>, FALSE, 0, <<"a">>, FALSE, TRUE) }

InitChat ==
    /\ InitCommon
    /\ files = EmptyMap
    /\ quota = EmptyMap
    /\ shares = EmptyMap
    /\ subs = EmptyMap
    /\ notifs = EmptyMap
    /\ attempts = {}
    /\ sessions = EmptyMap

NextChat ==
    \/ \E u \in Users, params \in SessionParams,
          tools \in {<<>>, <<"calculator">>, <<"nosuch">>, <<"nosuch", "get_weather">>} :
            create_session(u, params.temperature, params.top_k, tools)
    \/ \E u \in Users, id \in SessionIds, p \in Payloads, env \in ChatEnvs :
            chat(u, id, p, env)
    \/ \E u \in Users, id \in SessionIds, p \in Payloads, env \in ChatEnvs :
            chat_stream(u, id, p, env)
    \/ \E u \in Users, id \in SessionIds : get_session_messages(u, id)
    \/ \E u \in Users, id \in SessionIds : delete_session(u, id)

SpecChat == InitChat /\ [][NextChat]_vars

\* the ai messages of a session record
ai_count(ses) ==
    Cardinality({i \in 1..Len(ses.messages) : ses.messages[i].role = "ai"})

\* C13: whatever goes wrong inside the agent during a blocking turn (model
\* unavailable, tool exception, failure while saving steps), with or without
\* tools selected, the chat endpoint answers 200 and stores exactly one ai
\* reply after the human message.
C13_BlockingTurnAlwaysAnswers ==
    [][\A u \in Users, id \in DOMAIN sessions, p \in Payloads, env \in ChatEnvs :
        (chat(u, id, p, env) /\ sessions[id].user = u /\ ~env.store_raises)
        => /\ resp'.status = 200
           /\ ai_count(sessions'[id]) = ai_count(sessions[id]) + 1]_vars

\* the event types of a stream, and the texts of its content events
event_types(events) == [i \in 1..Len(events) |-> events[i].type]
content_texts(events) ==
    LET cs == SelectSeq(events, LAMBDA e : e.type = "content")
    IN [i \in 1..Len(cs) |-> cs[i].content]

\* what a streaming turn of the owner must leave
C14_StreamStep(id) ==
    LET events == turn'.events
        n == Len(events)
        after == sessions'[id].messages
    IN /\ n >= 2
       /\ events[1].type = "start"
       /\ \A i \in 2..(n - 1) : events[i].type = "content"
       /\ events[n].type \in {"end", "error"}
       /\ events[n].type = "end"
            => /\ ai_count(sessions'[id]) > ai_count(sessions[id])
               /\ after[Len(after)] =
                    [role |-> "ai", content |-> Concat(content_texts(events))]
       /\ events[n].type = "error"
            => ai_count(sessions'[id]) = ai_count(sessions[id])

\* C14: a streaming response is one start event, then content events, then
\* exactly one terminal event, end or error, and nothing after it; the turn
\* stores an ai message if and only if the terminal event is end, and its
\* content is the concatenation of the content events in order.
C14_StreamProtocol ==
    [][\A u \in Users, id \in DOMAIN sessions, p \in Payloads, env \in ChatEnvs :
        (chat_stream(u, id, p, env) /\ sessions[id].user = u)
            => C14_StreamStep(id)]_vars

\* what a turn of the owner of session id must hand to the agent
C15_TurnStep(id) ==
    LET enabled == sessions[id].tools_enabled
        named == SelectSeq(enabled, LAMBDA n : n \in ToolNames)
        found(index) == SelectSeq(index.ranking, LAMBDA n : n \in ToolNames)
    IN /\ enabled # <<>> => (turn'.tools = named /\ ~turn'.searched)
       /\ enabled = <<>>
            => /\ turn'.searched
               /\ Len(turn'.tools) <= 10
               /\ \E env \in ChatEnvs :
                    /\ Len(turn'.tools) <= Len(found(env.index))
                    /\ turn'.tools = SubSeq(found(env.index), 1, Len(turn'.tools))
                    /\ Len(turn'.tools) < Len(found(env.index))
                            => Len(turn'.tools) = 10
       /\ turn'.tools = <<>>
            => /\ sessions'[id].steps = sessions[id].steps
               /\ sessions'[id].executions = sessions[id].executions
               /\ ai_count(sessions'[id]) <= ai_count(sessions[id]) + 1

C18_Requested(payload, ses, field) ==
    IF payload[field] # None THEN payload[field] ELSE ses[field]

\* C18: when a send-message request (blocking or streaming) carries a
\* temperature or max_tokens override, the LLM call of that turn uses the
\* overriding value; without an override it uses the session's value.
C18_OverrideReachesLLM ==
    [][(resp'.op \in {"chat", "chat_stream"} /\ resp'.status # 404) =>
        \A u \in Users, id \in DOMAIN sessions, p \in Payloads, env \in ChatEnvs :
            (chat(u, id, p, env) \/ chat_stream(u, id, p, env)) =>
                /\ turn'.llm.temperature = C18_Requested(p, sessions[id], "temperature")
                /\ turn'.llm.max_tokens = C18_Requested(p, sessions[id], "max_tokens")]_vars

\* the turn recorded in turn' completed: a blocking call answered 200, or a
\* streaming call whose last event is end
C27_Completed ==
    /\ resp'.op \in {"chat", "chat_stream"}
    /\ resp'.status = 200
    /\ resp'.op = "chat_stream" =>
          /\ turn'.events # <<>>
          /\ turn'.events[Len(turn'.events)].type = "end"

\* C27: each completed send-message call (blocking, or streaming that ends
\* with an end event) adds exactly two messages to the session, first the
\* human message and then one ai reply; a turn never creates any other
\* message, whether or not tools were used.
C27_TwoMessagesPerTurn ==
    [][C27_Completed =>
        LET before == sessions[turn'.session].messages
            after == sessions'[turn'.session].messages
        IN /\ Len(after) = Len(before) + 2
           /\ SubSeq(after, 1, Len(before)) = before
           /\ after[Len(before) + 1].role = "human"
           /\ after[Len(before) + 2].role = "ai"]_vars

\* the step numbers of the AgentSteps attached to message m of a session
C28_StepNumbers(ses, m) == {i \in 1..Cardinality(ses.steps) : <<m, i>> \in ses.steps}

\* C28: for every message the AgentSteps attached to it carry distinct
\* step_numbers numbered from 1, and saving the steps of a turn never fails
\* on this rule, also when the preceding tool-using turn stored no ai reply
\* before the next one starts: a turn whose tools ran n steps, with nothing
\* failing in the model, the executor or the database, stores n AgentSteps.
C28_StepsAlwaysSaved ==
    [][(resp'.op \in {"chat", "chat_stream"} /\ resp'.status # 404) =>
        \A u \in Users, id \in DOMAIN sessions, env \in ChatEnvs :
            (/\ ~env.llm_raises /\ ~env.agent_raises
             /\ ~env.save_raises /\ ~env.store_raises
             /\ env.nsteps > 0
             /\ chat(u, id, NoOverride, env) \/ chat_stream(u, id, NoOverride, env)
             /\ turn'.tools # <<>>)
            => /\ Cardinality(sessions'[id].steps)
                    = Cardinality(sessions[id].steps) + env.nsteps
               /\ \A m \in 1..Len(sessions'[id].messages) :
                    C28_StepNumbers(sessions'[id], m)
                        = 1..Cardinality(C28_StepNumbers(sessions'[id], m))]_vars

\* C29: the LLM of a turn is constructed with the session's temperature
\* whenever the session has one set, including 0, and with 0.7 only when the
\* session has none; top_k (and likewise top_p, repeat_penalty, seed,
\* num_predict, num_ctx) is passed on exactly when the session's value is
\* set, including 0.
C29_SessionParametersReachLLM ==
    [][(resp'.op \in {"chat", "chat_stream"} /\ resp'.status # 404) =>
        LET ses == sessions[turn'.session]
        IN /\ turn'.llm.temperature
                = (IF ses.temperature # None THEN ses.temperature ELSE 7)
           /\ turn'.llm.top_k = ses.top_k]_vars

----------------------------------------------------------------------------
(* The endpoints addressed by a record id, called by owners and by others. *)
(* alice owns one session, one file and one scheduled notification.        *)

InitAccess ==
    /\ InitCommon
    /\ files = Put(EmptyMap, 1, NewUserFile("alice", 1, FALSE, None))
    /\ quota = Put(EmptyMap, "alice", charge_quota(DefaultQuota, 1))
    /\ shares = EmptyMap
    /\ subs = EmptyMap
    /\ notifs = Put(EmptyMap, 1,
            [user |-> "alice", status |-> "pending", title |-> "t0",
             scheduled_time |-> 0,
             snooze_duration_minutes |-> DefaultSnoozeDuration,
             snooze_count |-> 0, max_snooze_count |-> 1,
             original_scheduled_time |-> None, sent_at |-> None])
    /\ attempts = {}
    /\ sessions = Put(EmptyMap, 1,
            NewSession("alice", None, None, <<>>))

\* the turns tried here: the model answers, the model is down, the agent
\* answers after one tool step
AccessEnvs ==
    { Env(IndexNothing, FALSE, << <<"a">> >>, FALSE, 0, <<>>, FALSE, FALSE),
      Env(IndexNothing, TRUE, <<>>, FALSE, 0, <<>>, FALSE, FALSE),
      Env(IndexCalculator, FALSE, <<>>, FALSE, 1, <<"a">>, FALSE, FALSE) }

\* 0 is an id no record has
NextAccess ==
    \/ \E u \in Users, id \in 0..MaxSessions, env \in AccessEnvs :
            chat(u, id, NoOverride, env)
    \/ \E u \in Users, id \in 0..MaxSessions, env \in AccessEnvs :
            chat_stream(u, id, NoOverride, env)
    \/ \E u \in Users, id \in 0..MaxSessions : get_session(u, id)
    \/ \E u \in Users, id \in 0..MaxSessions : get_session_messages(u, id)
    \/ \E u \in Users, id \in 0..MaxSessions : delete_session(u, id)
    \/ \E u \in Users, id \in 0..MaxSessions : update_session_visibility(u, id, FALSE)
    \/ \E u \in Users, id \in 0..MaxFileIds : get_file(u, id)
    \/ \E u \in Users, id \in 0..MaxFileIds : update_file(u, id, "d1")
    \/ \E u \in Users, id \in 0..MaxFileIds : delete_file(u, id)
    \/ \E u \in Users, id \in 0..MaxFileIds :
            create_file_share(u, id, TRUE, NoUser, None, None)
    \/ \E u \in Users, id \in 0..MaxNotifs : get_scheduled_notification(u, id)
    \/ \E u \in Users, id \in 0..MaxNotifs :
            update_scheduled_notification(u, id, [scheduled_time |-> MaxNotifTime])
    \/ \E u \in Users, id \in 0..MaxNotifs : snooze_notification(u, id, None)
    \/ \E u \in Users, id \in 0..MaxNotifs : cancel_scheduled_notification(u, id)

SpecAccess == InitAccess /\ [][NextAccess]_vars

\* the answer to a caller who may not see the record: 404 with no body of
\* the record, and every table left as it was
C6_Refused ==
    /\ resp'.status = 404
    /\ resp'.detail = 0
    /\ UNCHANGED <<files, quota, shares, notifs, sessions, subs>>

\* C6: every chat-session, file and scheduled-notification endpoint
\* addressed by id answers 404 to a caller who does not own the record,
\* the same answer as for an id that no record has, and changes no
\* persisted state: a step is a refusal, or it is not a call of any of
\* these endpoints by a caller who does not own the record addressed.
C6_NonOwnerSeesNotFound ==
    [][ \/ C6_Refused
        \/ \A u \in Users :
            /\ \A id \in 0..MaxSessions :
                  (id \notin DOMAIN sessions \/ sessions[id].user # u)
                    => ~( \/ \E env \in AccessEnvs : chat(u, id, NoOverride, env)
                          \/ \E env \in AccessEnvs : chat_stream(u, id, NoOverride, env)
                          \/ get_session(u, id)
                          \/ get_session_messages(u, id)
                          \/ delete_session(u, id)
                          \/ update_session_visibility(u, id, FALSE))
            /\ \A id \in 0..MaxFileIds :
                  (id \notin DOMAIN files \/ files[id].user # u)
                    => ~( \/ get_file(u, id)
                          \/ update_file(u, id, "d1")
                          \/ delete_file(u, id)
                          \/ create_file_share(u, id, TRUE, NoUser, None, None))
            /\ \A id \in 0..MaxNotifs :
                  (id \notin DOMAIN notifs \/ notifs[id].user # u)
                    => ~( \/ get_scheduled_notification(u, id)
                          \/ update_scheduled_notification(
                                u, id, [scheduled_time |-> MaxNotifTime])
                          \/ snooze_notification(u, id, None)
                          \/ cancel_scheduled_notification(u, id))
      ]_vars

\* bob has just been refused on a record of alice's that exists, while
\* alice's session, file and notification are all still there
C6_Witness ==
    /\ resp.status = 404
    /\ resp.op \in {"chat", "delete_file", "cancel_scheduled_notification"}
    /\ 1 \in DOMAIN sessions /\ sessions[1].user = "alice"
    /\ 1 \in DOMAIN files /\ files[1].user = "alice"
    /\ 1 \in DOMAIN notifs /\ notifs[1].user = "alice"

====
